---- MODULE Spec2Model ----
(***************************************************************************)
(* Model of the projects REST API (axum handlers over a SQLite pool).      *)
(*                                                                         *)
(* The store is the record db of five tables.  A handler is a sequence of  *)
(* store statements; every statement (one .await on the pool) is one       *)
(* atomic step of the handler, and the steps of different requests may     *)
(* interleave.  A request is a record holding the handler's payload, its   *)
(* position (pc), its local variables and, once finished, its response.    *)
(*                                                                         *)
(* Strings are modelled by small naturals: 0 stands for a string that the  *)
(* field's validator rejects (empty, over-long, malformed), 1.. are        *)
(* distinct well-formed strings and < on them stands for String::cmp.      *)
(* Option<T> is modelled as a sequence: <<>> is None, <<v>> is Some(v).    *)
(* now is the reading of the wall clock (Utc::now()) and uuids the set of  *)
(* project identifiers that Uuid::new_v4() has returned so far.            *)
(***************************************************************************)
EXTENDS Integers, Sequences, FiniteSets, TLC

VARIABLES db, reqs, now, uuids, limiter, calls

vars == <<db, reqs, now, uuids, limiter, calls>>

(* ---------------------------------------------------------------- bounds *)
MaxRequests == 2
MaxStr == 2
MaxLen == 2
MaxTime == 2

(* --------------------------------------------------------------- helpers *)
None == <<>>

Some(v) == <<v>>

IsSome(o) == o # <<>>

Unwrap(o) == o[1]

Range(s) == {s[k] : k \in 1..Len(s)}

Min(S) == CHOOSE x \in S : \A y \in S : x <= y

SeqsUpTo(S, n) == UNION {[1..k -> S] : k \in 0..n}

Str == 0..MaxStr

OptionOf(S) == {None} \cup {Some(v) : v \in S}

(* validator: length(min = 1, max = ..), email, url: 0 is the rejected string *)
WellFormed(s) == s # 0

RECURSIVE OrderBy(_, _)
(* ORDER BY key ASC over the rows S: every arrangement of S in which the keys
   never decrease; rows with equal keys come in an order the store chooses *)
OrderBy(S, key) ==
  IF S = {} THEN {<<>>}
  ELSE UNION {{<<x>> \o rest : rest \in OrderBy(S \ {x}, key)} :
              x \in {y \in S : \A z \in S : key[y] <= key[z]}}

(* HashMap::into_values().collect(): the values in an order the map chooses *)
into_values(map) ==
  {[j \in 1..Len(o) |-> map[o[j]]] :
   o \in OrderBy(DOMAIN map, [k \in DOMAIN map |-> 0])}

RECURSIVE InsertSorted(_, _, _)
InsertSorted(x, sorted, key) ==
  IF sorted = <<>> THEN <<x>>
  ELSE IF key[x] <= key[Head(sorted)] THEN <<x>> \o sorted
  ELSE <<Head(sorted)>> \o InsertSorted(x, Tail(sorted), key)

RECURSIVE sort_by(_, _)
Unsorted(vec, key) == vec

(* Vec::sort_by(|a, b| key(a).cmp(&key(b))): a stable sort *)
sort_by(vec, key) ==
  IF vec = <<>> THEN <<>>
  ELSE InsertSorted(Head(vec), sort_by(Tail(vec), key), key)

(* Uuid::to_string: the canonical text of an identifier *)
to_string(id) == <<"uuid", id>>

(* Uuid::parse_str(text).ok(): Some(id) for a well-formed text, else None *)
parse_str(text) ==
  IF Len(text) = 2 /\ text[1] = "uuid" THEN Some(text[2]) ELSE None

(* ---------------------------------------------------------------- errors *)
NoError == [kind |-> "None", id |-> 0]

AppError(kind, id) == [kind |-> kind, id |-> id]

(* impl IntoResponse for AppError *)
into_response(kind) ==
  CASE kind = "ProjectNotFound" -> 404
    [] kind = "TechnologyNotFound" -> 404
    [] kind = "UserNotFound" -> 404
    [] kind = "DuplicateResource" -> 409
    [] kind = "ValidationError" -> 400
    [] kind = "DatabaseError" -> 500
    [] kind = "InternalError" -> 500

(* -------------------------------------------------------------- requests *)
(* status = 0 while the handler runs; stored is the observation, made when *)
(* the request arrives, of whether its unique key is already in the store; *)
(* json is the body as the client sent it, req the value it was parsed to, *)
(* rows the rows that the handler's joined query returned                    *)
Idle ==
  [op |-> "idle", pc |-> "done", req |-> <<>>, stored |-> FALSE, i |-> 0,
   status |-> 0, error |-> NoError, body |-> <<>>, probes |-> <<>>,
   project |-> <<>>, technologies |-> <<>>, users |-> <<>>, json |-> <<>>,
   query |-> <<>>, rows |-> <<>>]

Arrive(op, pc, req, stored) ==
  [Idle EXCEPT !.op = op, !.pc = pc, !.req = req, !.stored = stored]

(* return Err(e) / the ? operator: the handler ends with the error's status *)
Err(c, kind, id) ==
  [c EXCEPT !.r.pc = "done", !.r.status = into_response(kind),
            !.r.error = AppError(kind, id)]

(* return Ok((status, Json(body))) *)
Ok(c, status, body) ==
  [c EXCEPT !.r.pc = "done", !.r.status = status, !.r.body = body]

Goto(c, pc) == [c EXCEPT !.r.pc = pc]

(* ----------------------------------------------------------------- store *)
(* Uuid::new_v4(): an identifier no row of the table carries *)
new_v4(rows) == Min((1..(Cardinality(rows) + 1)) \ {row.id : row \in rows})

(* Uuid::new_v4() for a project: an identifier that was never returned before *)
Uuid_new_v4(ids) == Min((1..(Cardinality(ids) + 1)) \ ids)

(* UNIQUE constraint of technologies.name *)
TechnologyNameTaken(d, name) == \E t \in d.technologies : t.name = name

NoUserEmailConstraint(d, email) == FALSE

(* UNIQUE constraint of users.email *)
UserEmailTaken(d, email) == \E u \in d.users : u.email = email

(* SELECT 1 FROM technologies WHERE id = ? *)
TechnologyExists(d, id) == \E t \in d.technologies : t.id = id

(* SELECT 1 FROM users WHERE id = ? *)
UserExists(d, id) == \E u \in d.users : u.id = id

(* SELECT * FROM technologies WHERE id = ? (fetch_optional) *)
FetchTechnology(d, id) ==
  IF TechnologyExists(d, id)
    THEN Some(CHOOSE t \in d.technologies : t.id = id)
    ELSE None

(* SELECT * FROM users WHERE id = ? (fetch_optional) *)
FetchUser(d, id) ==
  IF UserExists(d, id) THEN Some(CHOOSE u \in d.users : u.id = id) ELSE None

(* SELECT * FROM projects WHERE id = ? (fetch_optional) *)
FetchProject(d, id) ==
  IF \E p \in d.projects : p.id = id
    THEN Some(CHOOSE p \in d.projects : p.id = id)
    ELSE None

(* the association tables are kept in insertion (rowid) order.  Whether the
   schema declares (project_id, technology_id) and (project_id, user_id) as
   keys is not visible in the sources: an INSERT that repeats a pair already
   in the table is either rejected by the store or appended *)
PairStored(rows, row, col) ==
  \E k \in 1..Len(rows) :
    rows[k].project_id = row.project_id /\ rows[k][col] = row[col]

InsertOutcomes(rows, row, col) ==
  {Some(Append(rows, row))} \cup (IF PairStored(rows, row, col) THEN {None} ELSE {})

(* FOREIGN KEY (project_id) REFERENCES projects(id): an association row can
   only be inserted for a project row that exists *)
ForeignKeyHolds(d, project_id) == \E p \in d.projects : p.id = project_id

(* DELETE FROM project_technologies / project_users WHERE project_id = ? *)
DeleteAssociations(rows, id) == SelectSeq(rows, LAMBDA row : row.project_id # id)

AssociationsOf(rows, id) == SelectSeq(rows, LAMBDA row : row.project_id = id)

NoCascade(d, id) == d

(* ON DELETE CASCADE of the association tables' project_id *)
OnDeleteCascade(d, id) ==
  [d EXCEPT !.project_technologies = DeleteAssociations(@, id),
            !.project_users = DeleteAssociations(@, id)]

(* ------------------------------------------------------ handlers/users.rs *)
ValidCreateUser(req) == WellFormed(req.name) /\ WellFormed(req.email)

create_user(c) ==
  CASE c.r.pc = "check" ->
         IF ~ValidCreateUser(c.r.req)
           THEN {Err(c, "ValidationError", 0)}
         ELSE IF \E u \in c.db.users : u.email = c.r.req.email
           THEN {Err(c, "DuplicateResource", 0)}
         ELSE {Goto(c, "insert")}
    [] c.r.pc = "insert" ->
         LET user == [id |-> new_v4(c.db.users), name |-> c.r.req.name,
                      email |-> c.r.req.email]
         IN IF UserEmailTaken(c.db, user.email)
              THEN {Err(c, "DatabaseError", 0)}
              ELSE {Ok([c EXCEPT !.db.users = @ \cup {user}], 201, user)}

(* ----------------------------------------------- handlers/technologies.rs *)
ValidCreateTechnology(req) ==
  WellFormed(req.name) /\ (IsSome(req.description) => WellFormed(Unwrap(req.description)))

create_technology_unchecked(c) ==
  CASE c.r.pc = "check" ->
         IF ~ValidCreateTechnology(c.r.req)
           THEN {Err(c, "ValidationError", 0)}
           ELSE {Goto(c, "insert")}
    [] c.r.pc = "insert" ->
         LET technology == [id |-> new_v4(c.db.technologies), name |-> c.r.req.name,
                            description |-> c.r.req.description]
         IN IF TechnologyNameTaken(c.db, technology.name)
              THEN {Err(c, "DatabaseError", 0)}
              ELSE {Ok([c EXCEPT !.db.technologies = @ \cup {technology}], 201, technology)}

create_technology(c) ==
  CASE c.r.pc = "check" ->
         IF ~ValidCreateTechnology(c.r.req)
           THEN {Err(c, "ValidationError", 0)}
         ELSE IF \E t \in c.db.technologies : t.name = c.r.req.name
           THEN {Err(c, "DuplicateResource", 0)}
         ELSE {Goto(c, "insert")}
    [] c.r.pc = "insert" ->
         LET technology == [id |-> new_v4(c.db.technologies), name |-> c.r.req.name,
                            description |-> c.r.req.description]
         IN IF TechnologyNameTaken(c.db, technology.name)
              THEN {Err(c, "DatabaseError", 0)}
              ELSE {Ok([c EXCEPT !.db.technologies = @ \cup {technology}], 201, technology)}

(* --------------------------------------------------------- models/user.rs *)
(* UserRole::as_str *)
as_str(role) ==
  CASE role = "Owner" -> "owner"
    [] role = "Contributor" -> "contributor"
    [] role = "Viewer" -> "viewer"

from_str_lenient(str) ==
  CASE str = "owner" -> Some("Owner")
    [] str = "contributor" -> Some("Contributor")
    [] OTHER -> Some("Viewer")

(* impl FromStr for UserRole: Ok(role) is Some(role), Err(_) is None *)
from_str(str) ==
  CASE str = "owner" -> Some("Owner")
    [] str = "contributor" -> Some("Contributor")
    [] str = "viewer" -> Some("Viewer")
    [] OTHER -> None

(* ------------------------------------------------------ models/project.rs *)
(* #[validate(range(min = 0.0, max = 5.0))] *)
RatingInRange(rating) == 0 <= rating /\ rating <= 5

(* CreateProjectRequest::validate *)
ValidCreateProject(req) ==
  /\ WellFormed(req.name)
  /\ WellFormed(req.description)
  /\ WellFormed(req.repository_url)
  /\ WellFormed(req.language)
  /\ IsSome(req.rating) => RatingInRange(Unwrap(req.rating))

(* UpdateProjectRequest::validate *)
ValidUpdateProject(update) ==
  /\ IsSome(update.name) => WellFormed(Unwrap(update.name))
  /\ IsSome(update.description) => WellFormed(Unwrap(update.description))
  /\ IsSome(update.repository_url) => WellFormed(Unwrap(update.repository_url))
  /\ IsSome(update.language) => WellFormed(Unwrap(update.language))
  /\ IsSome(update.rating) => RatingInRange(Unwrap(update.rating))

(* Project::new, with the identifier Uuid::new_v4() and the time Utc::now()
   returned *)
Project_new(request, id, time) ==
  [id |-> id, name |-> request.name, description |-> request.description,
   repository_url |-> request.repository_url, language |-> request.language,
   rating |-> request.rating, created_at |-> time, updated_at |-> time]

(* a field of type Option<T> in a JSON body: <<>> when the key is absent,
   <<None>> when it is null, <<Some(v)>> when it carries the value v *)
JsonAbsent == <<>>

JsonNull == <<None>>

JsonValue(v) == <<Some(v)>>

(* #[derive(Deserialize)] for a field of type Option<T>: a missing key and a
   null are both None *)
deserialize_option(field) == IF field = JsonAbsent THEN None ELSE field[1]

(* Json<UpdateProjectRequest>; Path(id) rides along as id *)
deserialize_update(json) == [json EXCEPT !.rating = deserialize_option(@)]

Project_update_unstamped(self, update, time) ==
  [self EXCEPT
     !.name = IF IsSome(update.name) THEN Unwrap(update.name) ELSE @,
     !.description = IF IsSome(update.description) THEN Unwrap(update.description) ELSE @,
     !.repository_url = IF IsSome(update.repository_url) THEN Unwrap(update.repository_url) ELSE @,
     !.language = IF IsSome(update.language) THEN Unwrap(update.language) ELSE @,
     !.rating = IF IsSome(update.rating) THEN update.rating ELSE @]

(* Project::update, with the time Utc::now() returned *)
Project_update(self, update, time) ==
  [self EXCEPT
     !.name = IF IsSome(update.name) THEN Unwrap(update.name) ELSE @,
     !.description = IF IsSome(update.description) THEN Unwrap(update.description) ELSE @,
     !.repository_url = IF IsSome(update.repository_url) THEN Unwrap(update.repository_url) ELSE @,
     !.language = IF IsSome(update.language) THEN Unwrap(update.language) ELSE @,
     !.rating = IF IsSome(update.rating) THEN update.rating ELSE @,
     !.updated_at = time]

(* ---------------------------------------------------- handlers/projects.rs *)
(* a statement loop starts (or the handler moves on) at index 1 *)
Loop(c, pc) == [c EXCEPT !.r.pc = pc, !.r.i = 1]

(* the list a loop runs over; an absent list runs no iteration *)
ListOf(ids) == IF IsSome(ids) THEN Unwrap(ids) ELSE <<>>

SuppliedAndNotEmpty(ids) == IsSome(ids) /\ Unwrap(ids) # <<>>

(* if let Some(tech_ids) = update.technology_ids / Some(user_ids) = update.user_ids *)
Supplied(ids) == IsSome(ids)

EveryoneContributor(i) == "Contributor"

(* if idx == 0 { UserRole::Owner } else { UserRole::Contributor } *)
RoleAt(i) == IF i = 1 THEN "Owner" ELSE "Contributor"

ProbeNoTechnology(c, next) == {Loop(c, next)}

(* for tech_id in tech_ids { SELECT 1 FROM technologies WHERE id = ? } *)
ProbeTechnology(c, next) ==
  LET tech_ids == ListOf(c.r.req.technology_ids)
  IN IF c.r.i <= Len(tech_ids)
       THEN LET tech_id == tech_ids[c.r.i]
                probed == [c EXCEPT !.r.probes = Append(@, <<"technology", tech_id>>)]
            IN IF ~TechnologyExists(c.db, tech_id)
                 THEN {Err(probed, "TechnologyNotFound", tech_id)}
                 ELSE {[probed EXCEPT !.r.i = @ + 1]}
       ELSE {Loop(c, next)}

(* for user_id in user_ids { SELECT 1 FROM users WHERE id = ? } *)
ProbeUser(c, next) ==
  LET user_ids == ListOf(c.r.req.user_ids)
  IN IF c.r.i <= Len(user_ids)
       THEN LET user_id == user_ids[c.r.i]
                probed == [c EXCEPT !.r.probes = Append(@, <<"user", user_id>>)]
            IN IF ~UserExists(c.db, user_id)
                 THEN {Err(probed, "UserNotFound", user_id)}
                 ELSE {[probed EXCEPT !.r.i = @ + 1]}
       ELSE {Loop(c, next)}

AssociateTechnology_undo(c, project_id, next) ==
  LET tech_ids == ListOf(c.r.req.technology_ids)
      undone == [c EXCEPT !.db.projects = {p \in @ : p.id # project_id},
                          !.db.project_technologies =
                             SelectSeq(@, LAMBDA row : row.project_id # project_id)]
  IN IF c.r.i <= Len(tech_ids)
       THEN LET row == [project_id |-> project_id, technology_id |-> tech_ids[c.r.i]]
            IN IF ~ForeignKeyHolds(c.db, project_id) THEN {Err(c, "DatabaseError", 0)} ELSE
               {IF IsSome(o)
                  THEN [c EXCEPT !.db.project_technologies = Unwrap(o), !.r.i = @ + 1]
                  ELSE Err(undone, "DatabaseError", 0)
                : o \in InsertOutcomes(c.db.project_technologies, row, "technology_id")}
       ELSE {Loop(c, next)}

(* INSERT INTO project_technologies (project_id, technology_id, ..) *)
AssociateTechnology(c, project_id, next) ==
  LET tech_ids == ListOf(c.r.req.technology_ids)
  IN IF c.r.i <= Len(tech_ids)
       THEN LET row == [project_id |-> project_id, technology_id |-> tech_ids[c.r.i]]
            IN IF ~ForeignKeyHolds(c.db, project_id) THEN {Err(c, "DatabaseError", 0)} ELSE
               {IF IsSome(o)
                  THEN [c EXCEPT !.db.project_technologies = Unwrap(o), !.r.i = @ + 1]
                  ELSE Err(c, "DatabaseError", 0)
                : o \in InsertOutcomes(c.db.project_technologies, row, "technology_id")}
       ELSE {Loop(c, next)}

(* INSERT INTO project_users (project_id, user_id, role, ..) *)
AssociateUser(c, project_id, next) ==
  LET user_ids == ListOf(c.r.req.user_ids)
  IN IF c.r.i <= Len(user_ids)
       THEN LET row == [project_id |-> project_id, user_id |-> user_ids[c.r.i],
                        role |-> as_str(RoleAt(c.r.i))]
            IN IF ~ForeignKeyHolds(c.db, project_id) THEN {Err(c, "DatabaseError", 0)} ELSE
               {IF IsSome(o)
                  THEN [c EXCEPT !.db.project_users = Unwrap(o), !.r.i = @ + 1]
                  ELSE Err(c, "DatabaseError", 0)
                : o \in InsertOutcomes(c.db.project_users, row, "user_id")}
       ELSE {Loop(c, next)}

RECURSIVE FetchTechnologies(_, _)
(* for tech_id in tech_ids { if let Some(tech) = SELECT * .. { push } } *)
FetchTechnologies(d, tech_ids) ==
  IF tech_ids = <<>> THEN <<>>
  ELSE FetchTechnology(d, Head(tech_ids)) \o FetchTechnologies(d, Tail(tech_ids))

create_project_insert_first(c) ==
  CASE c.r.pc = "validate" ->
         IF ~ValidCreateProject(c.r.req)
           THEN {Err(c, "ValidationError", 0)}
           ELSE {Loop(c, "insert_project")}
    [] c.r.pc = "probe_technologies" -> ProbeTechnology(c, "probe_users")
    [] c.r.pc = "probe_users" -> ProbeUser(c, "associate_technologies")
    [] c.r.pc = "insert_project" ->
         LET project == Project_new(c.r.req, Uuid_new_v4(c.uuids), c.now)
         IN {Loop([c EXCEPT !.db.projects = @ \cup {project}, !.r.project = project,
                            !.uuids = @ \cup {project.id}],
                  "probe_technologies")}
    [] c.r.pc = "associate_technologies" ->
         AssociateTechnology(c, c.r.project.id, "fetch_technologies")
    [] c.r.pc = "fetch_technologies" ->
         {Loop([c EXCEPT !.r.technologies =
                           FetchTechnologies(c.db, ListOf(c.r.req.technology_ids))],
               "associate_users")}
    [] c.r.pc = "associate_users" ->
         (* the INSERT of one user and the SELECT that reads the user back *)
         LET user_ids == ListOf(c.r.req.user_ids)
         IN IF c.r.i <= Len(user_ids)
              THEN {IF n.r.pc = "done" THEN n
                    ELSE [n EXCEPT !.r.users =
                            @ \o (IF UserExists(c.db, user_ids[c.r.i])
                                    THEN <<[user |-> Unwrap(FetchUser(c.db, user_ids[c.r.i])),
                                            role |-> RoleAt(c.r.i)]>>
                                    ELSE <<>>)]
                    : n \in AssociateUser(c, c.r.project.id, "respond")}
              ELSE {Ok(c, 201, [project |-> c.r.project,
                                technologies |-> c.r.technologies,
                                users |-> c.r.users])}

create_project(c) ==
  CASE c.r.pc = "validate" ->
         IF ~ValidCreateProject(c.r.req)
           THEN {Err(c, "ValidationError", 0)}
           ELSE {Loop(c, "probe_technologies")}
    [] c.r.pc = "probe_technologies" -> ProbeTechnology(c, "probe_users")
    [] c.r.pc = "probe_users" -> ProbeUser(c, "insert_project")
    [] c.r.pc = "insert_project" ->
         LET project == Project_new(c.r.req, Uuid_new_v4(c.uuids), c.now)
         IN {Loop([c EXCEPT !.db.projects = @ \cup {project}, !.r.project = project,
                            !.uuids = @ \cup {project.id}],
                  "associate_technologies")}
    [] c.r.pc = "associate_technologies" ->
         AssociateTechnology(c, c.r.project.id, "fetch_technologies")
    [] c.r.pc = "fetch_technologies" ->
         {Loop([c EXCEPT !.r.technologies =
                           FetchTechnologies(c.db, ListOf(c.r.req.technology_ids))],
               "associate_users")}
    [] c.r.pc = "associate_users" ->
         (* the INSERT of one user and the SELECT that reads the user back *)
         LET user_ids == ListOf(c.r.req.user_ids)
         IN IF c.r.i <= Len(user_ids)
              THEN {IF n.r.pc = "done" THEN n
                    ELSE [n EXCEPT !.r.users =
                            @ \o (IF UserExists(c.db, user_ids[c.r.i])
                                    THEN <<[user |-> Unwrap(FetchUser(c.db, user_ids[c.r.i])),
                                            role |-> RoleAt(c.r.i)]>>
                                    ELSE <<>>)]
                    : n \in AssociateUser(c, c.r.project.id, "respond")}
              ELSE {Ok(c, 201, [project |-> c.r.project,
                                technologies |-> c.r.technologies,
                                users |-> c.r.users])}

(* SELECT t.* FROM technologies t JOIN project_technologies pt
   ON t.id = pt.technology_id WHERE pt.project_id = ? ORDER BY t.name ASC *)
SelectProjectTechnologies(d, id) ==
  LET pt == d.project_technologies
      K == {k \in 1..Len(pt) : pt[k].project_id = id /\ TechnologyExists(d, pt[k].technology_id)}
      t == [k \in K |-> Unwrap(FetchTechnology(d, pt[k].technology_id))]
  IN {[j \in 1..Len(o) |-> t[o[j]]] : o \in OrderBy(K, [k \in K |-> t[k].name])}

(* SELECT u.id, u.name, u.email, u.created_at, pu.role FROM users u
   JOIN project_users pu ON u.id = pu.user_id WHERE pu.project_id = ?
   ORDER BY u.name ASC *)
SelectProjectUsers(d, id) ==
  LET pu == d.project_users
      K == {k \in 1..Len(pu) : pu[k].project_id = id /\ UserExists(d, pu[k].user_id)}
      u == [k \in K |-> Unwrap(FetchUser(d, pu[k].user_id))]
  IN {[j \in 1..Len(o) |-> <<u[o[j]], pu[o[j]].role>>] :
      o \in OrderBy(K, [k \in K |-> u[k].name])}

RECURSIVE FilterMapRole(_)
(* users_raw.into_iter().filter_map(|(user, role_str)|
     UserRole::from_str(&role_str).ok().map(|role| UserWithRole { user, role })) *)
FilterMapRole(users_raw) ==
  IF users_raw = <<>> THEN <<>>
  ELSE (IF IsSome(from_str(Head(users_raw)[2]))
          THEN <<[user |-> Head(users_raw)[1], role |-> Unwrap(from_str(Head(users_raw)[2]))]>>
          ELSE <<>>)
       \o FilterMapRole(Tail(users_raw))

update_project(c) ==
  CASE c.r.pc = "validate" ->
         IF ~ValidUpdateProject(c.r.req)
           THEN {Err(c, "ValidationError", 0)}
           ELSE {Loop(c, "probe_technologies")}
    [] c.r.pc = "probe_technologies" -> ProbeTechnology(c, "probe_users")
    [] c.r.pc = "probe_users" -> ProbeUser(c, "fetch_project")
    [] c.r.pc = "fetch_project" ->
         LET probed == [c EXCEPT !.r.probes = Append(@, <<"project", c.r.req.id>>)]
             found == FetchProject(c.db, c.r.req.id)
         IN IF ~IsSome(found)
              THEN {Err(probed, "ProjectNotFound", c.r.req.id)}
              ELSE {Goto([probed EXCEPT !.r.project = Project_update(Unwrap(found), c.r.req, c.now)],
                         "update_project")}
    [] c.r.pc = "update_project" ->
         (* UPDATE projects SET name = ?, .., rating = ?, updated_at = ? WHERE id = ? *)
         {Goto([c EXCEPT !.db.projects =
                  {IF p.id = c.r.req.id
                     THEN [p EXCEPT !.name = c.r.project.name,
                                    !.description = c.r.project.description,
                                    !.repository_url = c.r.project.repository_url,
                                    !.language = c.r.project.language,
                                    !.rating = c.r.project.rating,
                                    !.updated_at = c.r.project.updated_at]
                     ELSE p : p \in @}],
               "delete_technologies")}
    [] c.r.pc = "delete_technologies" ->
         IF Supplied(c.r.req.technology_ids)
           THEN {Loop([c EXCEPT !.db.project_technologies = DeleteAssociations(@, c.r.req.id)],
                      "associate_technologies")}
           ELSE {Goto(c, "delete_users")}
    [] c.r.pc = "associate_technologies" ->
         AssociateTechnology(c, c.r.req.id, "delete_users")
    [] c.r.pc = "delete_users" ->
         IF Supplied(c.r.req.user_ids)
           THEN {Loop([c EXCEPT !.db.project_users = DeleteAssociations(@, c.r.req.id)],
                      "associate_users")}
           ELSE {Goto(c, "fetch_technologies")}
    [] c.r.pc = "associate_users" -> AssociateUser(c, c.r.req.id, "fetch_technologies")
    [] c.r.pc = "fetch_technologies" ->
         {Goto([c EXCEPT !.r.technologies = technologies], "fetch_users") :
          technologies \in SelectProjectTechnologies(c.db, c.r.req.id)}
    [] c.r.pc = "fetch_users" ->
         {Ok(c, 200, [project |-> c.r.project,
                      technologies |-> c.r.technologies,
                      users |-> FilterMapRole(users_raw)]) :
          users_raw \in SelectProjectUsers(c.db, c.r.req.id)}

InnerJoinPairs(PT, PU) == PT \X PU

(* p LEFT JOIN pt .. LEFT JOIN pu: the (pt row, pu row) pairs of one project,
   0 standing for the all-NULL side of a join that found no row *)
LeftJoinPairs(PT, PU) ==
  (IF PT = {} THEN {0} ELSE PT) \X (IF PU = {} THEN {0} ELSE PU)

(* the rows of get_project's query: projects p LEFT JOIN project_technologies
   pt LEFT JOIN technologies t LEFT JOIN project_users pu LEFT JOIN users u
   WHERE p.id = ? ORDER BY t.name ASC, u.name ASC (NULL sorts first).  One row
   per (pt row, pu row) pair; an empty side contributes one all-NULL side.
   A row that repeats another one column by column is listed once: the
   handler reads the rows through is_empty and through maps keyed by id,
   neither of which tells a repeated row from a single one *)
ProjectWithRelationsRows(d, id) ==
  LET pt == d.project_technologies
      pu == d.project_users
      PT == {k \in 1..Len(pt) : pt[k].project_id = id}
      PU == {j \in 1..Len(pu) : pu[j].project_id = id}
      row(kj) ==
        [project |-> Unwrap(FetchProject(d, id)),
         tech |-> IF kj[1] = 0 THEN None ELSE FetchTechnology(d, pt[kj[1]].technology_id),
         user |-> IF kj[2] = 0 THEN None ELSE FetchUser(d, pu[kj[2]].user_id),
         role |-> IF kj[2] = 0 THEN None ELSE Some(pu[kj[2]].role)]
      rows == {row(kj) : kj \in LeftJoinPairs(PT, PU)}
      name(o) == IF IsSome(o) THEN Unwrap(o).name ELSE 0
      key == [r \in rows |-> name(r.tech) * (MaxStr + 1) + name(r.user)]
  IN IF ~IsSome(FetchProject(d, id)) THEN {<<>>} ELSE OrderBy(rows, key)

RECURSIVE technologies_map(_)
(* for row in rows { technologies_map.entry(tech_id).or_insert_with(..) } *)
technologies_map(rows) ==
  IF rows = <<>> THEN <<>>
  ELSE LET row == Head(rows)
           rest == technologies_map(Tail(rows))
       IN IF IsSome(row.tech)
            THEN (Unwrap(row.tech).id :> Unwrap(row.tech)) @@ rest
            ELSE rest

RECURSIVE users_map(_)
(* for row in rows { users_map.entry(user_id).or_insert_with(..) }, for the
   rows whose user columns are present and whose role parses *)
users_map(rows) ==
  IF rows = <<>> THEN <<>>
  ELSE LET row == Head(rows)
           rest == users_map(Tail(rows))
       IN IF IsSome(row.user) /\ IsSome(row.role) /\ IsSome(from_str(Unwrap(row.role)))
            THEN (Unwrap(row.user).id :>
                    [user |-> Unwrap(row.user), role |-> Unwrap(from_str(Unwrap(row.role)))])
                 @@ rest
            ELSE rest

get_project(c) ==
  UNION {
    IF rows = <<>>
      THEN {Err(c, "ProjectNotFound", c.r.req.id)}
      ELSE {Ok([c EXCEPT !.r.rows = rows], 200,
               [project |-> rows[1].project,
                technologies |-> sort_by(technologies, [t \in Range(technologies) |-> t.name]),
                users |-> sort_by(users, [u \in Range(users) |-> u.user.name])]) :
            technologies \in into_values(technologies_map(rows)),
            users \in into_values(users_map(rows))}
    : rows \in ProjectWithRelationsRows(c.db, c.r.req.id)}

delete_project_always_204(c) ==
  {Ok([c EXCEPT !.db = OnDeleteCascade([@ EXCEPT !.projects =
                                            {p \in @ : p.id # c.r.req.id}], c.r.req.id)],
      204, <<>>)}

(* DELETE FROM projects WHERE id = ?; rows_affected() == 0 is not-found *)
delete_project(c) ==
  IF ~IsSome(FetchProject(c.db, c.r.req.id))
    THEN {Err(c, "ProjectNotFound", c.r.req.id)}
    ELSE {Ok([c EXCEPT !.db = OnDeleteCascade([@ EXCEPT !.projects =
                                                 {p \in @ : p.id # c.r.req.id}], c.r.req.id)],
             204, <<>>)}

(* ----------------------------------------------------- models/pagination.rs *)
(* u32 and i64 values lie outside the integers TLC computes with, so a
   machine integer is kept as two digits of base 2^16: hi * 2^16 + lo.  A u32
   has hi < 2^16 *)
Base == 65536

Wide(n) == [hi |-> n \div Base, lo |-> n % Base]

U32_MAX == [hi |-> Base - 1, lo |-> Base - 1]

IsU32(x) == x.hi < Base

Less(x, y) == x.hi < y.hi \/ (x.hi = y.hi /\ x.lo < y.lo)

Carry(hi, lo) == [hi |-> hi + lo \div Base, lo |-> lo % Base]

(* x * n and x - 1 (for x > 0) in the integers *)
Times(x, n) == Carry(x.hi * n, x.lo * n)

Pred(x) == IF x.lo > 0 THEN [x EXCEPT !.lo = @ - 1] ELSE [hi |-> x.hi - 1, lo |-> Base - 1]

(* ceil(x / n) in the integers, n > 0 *)
CeilDiv(x, n) ==
  LET rest == (x.hi % n) * Base + x.lo
  IN Carry(x.hi \div n, rest \div n + (IF rest % n = 0 THEN 0 ELSE 1))

(* u32 arithmetic that overflows keeps the low 32 bits *)
wrapping(x) == [x EXCEPT !.hi = @ % Base]

(* `as u32` of a non-negative f64 saturates at u32::MAX *)
as_u32(x) == IF IsU32(x) THEN x ELSE U32_MAX

(* u32::max *)
max(x, y) == IF Less(x, y) THEN y ELSE x

(* u32::clamp *)
clamp(x, lo, hi) == IF Less(x, lo) THEN lo ELSE IF Less(hi, x) THEN hi ELSE x

(* Option::unwrap_or *)
unwrap_or(o, default) == IF IsSome(o) THEN Unwrap(o) ELSE default

(* PaginationMetadata::new: ((total_items as f64) / (page_size as f64)).ceil()
   as u32, then .max(1).  For the total_items below 2^53 and the page sizes
   1..100 drawn here the f64 quotient rounds to an integer only when the
   division is exact, so its ceil is the integers' ceil *)
total_pages(total_items, size) == max(as_u32(CeilDiv(total_items, size.lo)), Wide(1))

PaginationMetadata_new(p, size, total_items) ==
  [page |-> p, page_size |-> size, total_items |-> total_items,
   total_pages |-> total_pages(total_items, size)]

(* PaginatedResponse::new *)
PaginatedResponse_new(data, p, size, total_items) ==
  [data |-> data, pagination |-> PaginationMetadata_new(p, size, total_items)]

(* ListQueryParams::page *)
page(params) == max(unwrap_or(params.page, Wide(1)), Wide(1))

page_size_clamp_1000(params) == clamp(unwrap_or(params.page_size, Wide(10)), Wide(1), Wide(1000))

(* ListQueryParams::page_size *)
page_size(params) == clamp(unwrap_or(params.page_size, Wide(10)), Wide(1), Wide(100))

(* ListQueryParams::offset: (self.page() - 1) * self.page_size() in u32.  A
   product past u32::MAX panics in a build with overflow checks (None) and
   keeps the low 32 bits in a build without *)
offset(params) ==
  LET product == Times(Pred(page(params)), page_size(params).lo)
  IN IF IsU32(product) THEN {Some(product)} ELSE {Some(wrapping(product)), None}

sort_field_verbatim(params) == unwrap_or(params.sort, "created_at")

(* ListQueryParams::sort_field *)
sort_field(params) ==
  CASE params.sort = Some("name") -> "name"
    [] params.sort = Some("created_at") -> "created_at"
    [] params.sort = Some("updated_at") -> "updated_at"
    [] params.sort = Some("rating") -> "rating"
    [] OTHER -> "created_at"

(* ListQueryParams::sort_order *)
sort_order(params) ==
  CASE params.order = Some("asc") -> "ASC"
    [] params.order = Some("desc") -> "DESC"
    [] OTHER -> "DESC"

(* ---------------------------------------------------- handlers/projects.rs *)
(* params.user_id.as_ref().and_then(|id| Uuid::parse_str(id).ok())
         .map(|uuid| uuid.to_string()) *)
user_uuid_str(params) ==
  IF IsSome(params.user_id) /\ IsSome(parse_str(Unwrap(params.user_id)))
    THEN Some(to_string(Unwrap(parse_str(Unwrap(params.user_id)))))
    ELSE None

(* text LIKE '%s%': the text holds s.  The texts 1.. hold themselves and the
   empty text 0, and none holds another *)
Like(text, s) == s = 0 \/ s = text

(* the WHERE clause that count_builder and query_builder share *)
ListFilter(d, params, p) ==
  /\ IsSome(params.search) =>
       (Like(p.name, Unwrap(params.search)) \/ Like(p.description, Unwrap(params.search)))
  /\ IsSome(params.technology) =>
       \E j \in 1..Len(d.project_technologies) : \E t \in d.technologies :
         /\ d.project_technologies[j].project_id = p.id
         /\ d.project_technologies[j].technology_id = t.id
         /\ Like(t.name, Unwrap(params.technology))
  /\ IsSome(user_uuid_str(params)) =>
       \E j \in 1..Len(d.project_users) :
         /\ d.project_users[j].project_id = p.id
         /\ to_string(d.project_users[j].user_id) = Unwrap(user_uuid_str(params))
  /\ IsSome(params.min_rating) =>
       (IsSome(p.rating) /\ Unwrap(p.rating) >= Unwrap(params.min_rating))
  /\ IsSome(params.max_rating) =>
       (IsSome(p.rating) /\ Unwrap(p.rating) <= Unwrap(params.max_rating))
  /\ IsSome(params.language) => Like(p.language, Unwrap(params.language))

(* ORDER BY p.<field> <order>: the sort key of a row; NULL sorts below every
   rating, and DESC turns the order around.  A text that names none of the
   four columns gives the rows no order *)
OrderKey(p, field, order) ==
  LET value == CASE field = "name" -> p.name
                 [] field = "created_at" -> p.created_at
                 [] field = "updated_at" -> p.updated_at
                 [] field = "rating" -> IF IsSome(p.rating) THEN Unwrap(p.rating) ELSE -1
                 [] OTHER -> 0
  IN IF order = "ASC" THEN value ELSE 0 - value

(* LIMIT ? OFFSET ? over the ordered rows *)
LimitOffset(rows, limit, off) ==
  LET skip == IF off.hi > 0 \/ off.lo > Len(rows) THEN Len(rows) ELSE off.lo
      last_row == IF skip + limit.lo > Len(rows) THEN Len(rows) ELSE skip + limit.lo
  IN SubSeq(rows, skip + 1, last_row)

(* the handler's task panicked: no response is written *)
Panic(c) == [c EXCEPT !.r.pc = "done", !.r.error = AppError("Panic", 0)]

list_projects(c) ==
  CASE c.r.pc = "count" ->
         (* SELECT COUNT(..) as count FROM projects p WHERE 1=1 AND .. *)
         {Goto([c EXCEPT !.r.i = Cardinality({p \in c.db.projects :
                                               ListFilter(c.db, c.r.req, p)})],
               "select")}
    [] c.r.pc = "select" ->
         (* SELECT p.* FROM projects p WHERE 1=1 AND .. ORDER BY p.<field> <order>
            LIMIT ? OFFSET ? *)
         LET params == c.r.req
             matching == {p \in c.db.projects : ListFilter(c.db, params, p)}
             key == [p \in matching |-> OrderKey(p, sort_field(params), sort_order(params))]
         IN UNION {
              IF ~IsSome(off) THEN {Panic(c)}
              ELSE {Ok([c EXCEPT !.r.query =
                          [order_by |-> <<sort_field(params), sort_order(params)>>,
                           limit |-> page_size(params), offset |-> Unwrap(off)]],
                       200,
                       PaginatedResponse_new(
                         LimitOffset(rows, page_size(params), Unwrap(off)),
                         page(params), page_size(params), Wide(c.r.i))) :
                    rows \in OrderBy(matching, key)}
              : off \in offset(params)}

(* ------------------------------------------------ middleware/rate_limit.rs *)
(* Instants and Durations are counted in ticks of half a second *)
TicksPerSecond == 2

Duration_from_secs(n) == n * TicksPerSecond

(* RateLimiter::new at the instant t *)
RateLimiter_new(per_second, burst_size, t) ==
  [per_second |-> per_second, burst_size |-> burst_size,
   state |-> [requests |-> <<>>, last_cleanup |-> t]]

(* Instant::elapsed at the instant t *)
elapsed(instant, t) == t - instant

retain_all(requests, t) == requests

(* state.requests.retain(|_, tracker| tracker.last_request.elapsed() < 60 s) *)
retain_trackers(requests, t) ==
  LET kept == {ip \in DOMAIN requests :
                 elapsed(requests[ip].last_request, t) < Duration_from_secs(60)}
  IN [ip \in kept |-> requests[ip]]

(* Clean up old entries every 60 seconds *)
cleanup(state, t) ==
  IF elapsed(state.last_cleanup, t) > Duration_from_secs(60)
    THEN [requests |-> retain_trackers(state.requests, t), last_cleanup |-> t]
    ELSE state

(* state.requests.entry(ip).or_insert_with(..) *)
or_insert_with(requests, ip, tracker) ==
  IF ip \in DOMAIN requests THEN requests
  ELSE [k \in DOMAIN requests \cup {ip} |-> IF k = ip THEN tracker ELSE requests[k]]

within_limits_inclusive(tracker, burst_size) == Len(tracker.requests) <= burst_size

(* tracker.requests.len() < self.burst_size as usize *)
within_limits(tracker, burst_size) == Len(tracker.requests) < burst_size

(* RateLimiter::check_rate_limit called at the instant t, the mutex held from
   the first line to the last: the limiter it leaves and the value it
   returns.  The call is short against a tick: its clock readings are all t *)
check_rate_limit(self, ip, t) ==
  LET swept == cleanup(self.state, t)
      one_second_ago == t - Duration_from_secs(1)
      entries == or_insert_with(swept.requests, ip, [requests |-> <<>>, last_request |-> t])
      (* tracker.requests.retain(|&time| time > one_second_ago) *)
      recent == SelectSeq(entries[ip].requests, LAMBDA time : time > one_second_ago)
      tracker == [entries[ip] EXCEPT !.requests = recent]
      allowed == within_limits(tracker, self.burst_size)
      after == IF allowed
                 THEN [requests |-> Append(recent, t), last_request |-> t]
                 ELSE tracker
  IN [self |-> [self EXCEPT !.state = [swept EXCEPT !.requests =
                                         [entries EXCEPT ![ip] = after]]],
      allowed |-> allowed]

(* ------------------------------------------------------------- dispatch *)
Handler(c) ==
  CASE c.r.op = "create_user" -> create_user(c)
    [] c.r.op = "create_technology" -> create_technology(c)
    [] c.r.op = "create_project" -> create_project(c)
    [] c.r.op = "update_project" -> update_project(c)
    [] c.r.op = "get_project" -> get_project(c)
    [] c.r.op = "delete_project" -> delete_project(c)
    [] c.r.op = "list_projects" -> list_projects(c)

RECURSIVE Run(_)
(* the handler runs from the configuration c to its response with no other
   request in between: the set of configurations it can end in *)
Run(c) == IF c.r.pc = "done" THEN {c} ELSE UNION {Run(n) : n \in Handler(c)}

(* -------------------------------------------------------- specifications *)
(* what a handler works on: the store, its own request, the clock and the
   identifiers drawn so far *)
Config(r) == [db |-> db, r |-> r, now |-> now, uuids |-> uuids]

EmptyDb ==
  [technologies |-> {}, users |-> {}, projects |-> {},
   project_technologies |-> <<>>, project_users |-> <<>>]

Slots == 1..MaxRequests

CreateUserRequests == [name : 0..1, email : Str]

CreateTechnologyRequests == [name : Str, description : OptionOf(0..1)]

(* POST /users arrives *)
PostUser(s, req) ==
  /\ reqs[s].op = "idle"
  /\ reqs' = [reqs EXCEPT ![s] = Arrive("create_user", "check", req,
                                         \E u \in db.users : u.email = req.email)]
  /\ UNCHANGED <<db, now, uuids, limiter, calls>>

(* POST /technologies arrives *)
PostTechnology(s, req) ==
  /\ reqs[s].op = "idle"
  /\ reqs' = [reqs EXCEPT ![s] = Arrive("create_technology", "check", req,
                                         \E t \in db.technologies : t.name = req.name)]
  /\ UNCHANGED <<db, now, uuids, limiter, calls>>

(* the next store statement of the request in slot s completes *)
Advance(s) ==
  /\ reqs[s].pc # "done"
  /\ \E d \in Handler(Config(reqs[s])) :
       /\ db' = d.db
       /\ reqs' = [reqs EXCEPT ![s] = d.r]
       /\ uuids' = d.uuids
  /\ UNCHANGED <<now, limiter, calls>>

InitRace ==
  /\ db = EmptyDb
  /\ reqs = [s \in Slots |-> Idle]
  /\ now = 0
  /\ uuids = {}
  /\ limiter = RateLimiter_new(100, 20, 0)
  /\ calls = <<>>

NextRace ==
  \/ \E s \in Slots, req \in CreateUserRequests : PostUser(s, req)
  \/ \E s \in Slots, req \in CreateTechnologyRequests : PostTechnology(s, req)
  \/ \E s \in Slots : Advance(s)

SpecRace == InitRace /\ [][NextRace]_vars

(* ---------------------------------------------- one request after another *)
TechIds == {1, 2, 3}

UserIds == {1, 2, 3}

(* the handlers address one project row by its identifier and never relate
   two projects: one project can be stored, and its identifier is unknown
   until POST /projects has stored it *)
ProjectIds == {1}

(* two technologies and two users are stored; identifier 3 is unknown.  The
   names run against the identifiers, so identifier order is not name order *)
SeededDb ==
  [technologies |-> {[id |-> 1, name |-> 2, description |-> None],
                     [id |-> 2, name |-> 1, description |-> Some(1)]},
   users |-> {[id |-> 1, name |-> 2, email |-> 1],
              [id |-> 2, name |-> 1, email |-> 2]},
   projects |-> {},
   project_technologies |-> <<>>,
   project_users |-> <<>>]

IdLists(S) == OptionOf(SeqsUpTo(S, MaxLen))

CreateProjectRequests ==
  [name : 0..1, description : {1}, repository_url : {1}, language : {1},
   rating : {Some(4), Some(6)},
   technology_ids : IdLists(TechIds), user_ids : IdLists(UserIds)]

UpdateProjectRequests ==
  [id : ProjectIds,
   name : {None, Some(0), Some(2)}, description : {None}, repository_url : {None},
   language : {None}, rating : {None},
   technology_ids : IdLists(TechIds), user_ids : IdLists(UserIds)]

(* the texts a client can send as user_id: the canonical text of an
   identifier, or a text that is no identifier *)
IdTexts == {to_string(id) : id \in UserIds} \cup {<<"not-a-uuid">>}

ListQueryParams ==
  [search : {None}, technology : {None}, user_id : OptionOf(IdTexts),
   min_rating : {None}, max_rating : {None}, language : {None},
   sort : {None}, order : {None}, page : {None}, page_size : {None}]

(* a request is served from arrival to response *)
ServeRequest(r) ==
  /\ \E d \in Run(Config(r)) :
       /\ db' = d.db
       /\ reqs' = [reqs EXCEPT ![1] = d.r]
       /\ uuids' = d.uuids
  /\ UNCHANGED <<now, limiter, calls>>

Serve(op, pc, req) == ServeRequest(Arrive(op, pc, req, FALSE))

(* the response has been sent *)
Respond ==
  /\ reqs[1].op # "idle"
  /\ reqs' = [reqs EXCEPT ![1] = Idle]
  /\ UNCHANGED <<db, now, uuids, limiter, calls>>

(* POST /projects *)
PostProject(req) ==
  /\ Cardinality(db.projects) < Cardinality(ProjectIds)
  /\ Serve("create_project", "validate", req)

(* PUT /projects/{id} *)
PutProject(req) == Serve("update_project", "validate", req)

(* GET /projects/{id} *)
GetProject(id) == Serve("get_project", "query", [id |-> id])

(* GET /projects *)
ListProjects(params) == Serve("list_projects", "count", params)

Init ==
  /\ db = SeededDb
  /\ reqs = [s \in Slots |-> Idle]
  /\ now = 0
  /\ uuids = {}
  /\ limiter = RateLimiter_new(100, 20, 0)
  /\ calls = <<>>

(* one request at a time: the next one arrives after the response *)
Next ==
  \/ reqs[1].op = "idle" /\ \E req \in CreateProjectRequests : PostProject(req)
  \/ reqs[1].op = "idle" /\ \E req \in UpdateProjectRequests : PutProject(req)
  \/ reqs[1].op = "idle" /\ \E id \in ProjectIds : GetProject(id)
  \/ reqs[1].op = "idle" /\ \E params \in ListQueryParams : ListProjects(params)
  \/ Respond

Spec == Init /\ [][Next]_vars

(* ------------------------------------- the life of one project, with time *)
(* Utc::now() advances *)
Tick ==
  /\ now < MaxTime
  /\ now' = now + 1
  /\ UNCHANGED <<db, reqs, uuids, limiter, calls>>

LifeCreateRequests ==
  [name : {1}, description : {1}, repository_url : {1}, language : {1},
   rating : {None, Some(4)},
   technology_ids : {None, Some(<<1>>)}, user_ids : {None, Some(<<1>>)}]

(* the name 0 fails validation and identifier 3 names no technology *)
LifeUpdateBodies ==
  [id : ProjectIds,
   name : {None, Some(0), Some(2)}, description : {None, Some(2)},
   repository_url : {None}, language : {None},
   rating : {JsonAbsent, JsonNull, JsonValue(3)},
   technology_ids : {None, Some(<<>>), Some(<<3>>)}, user_ids : {None}]

(* POST /projects, at most once for every identifier of ProjectIds *)
CreateProject(req) ==
  /\ Cardinality(uuids) < Cardinality(ProjectIds)
  /\ Serve("create_project", "validate", req)

(* PUT /projects/{id} with the body json *)
UpdateProject(json) ==
  ServeRequest([Arrive("update_project", "validate", deserialize_update(json), FALSE)
                  EXCEPT !.json = json])

(* DELETE /projects/{id} *)
DeleteProject(id) == Serve("delete_project", "delete", [id |-> id])

NextLife ==
  \/ reqs[1].op = "idle" /\ \E req \in LifeCreateRequests : CreateProject(req)
  \/ reqs[1].op = "idle" /\ \E json \in LifeUpdateBodies : UpdateProject(json)
  \/ reqs[1].op = "idle" /\ \E id \in ProjectIds : DeleteProject(id)
  \/ reqs[1].op = "idle" /\ \E id \in ProjectIds : GetProject(id)
  \/ Respond
  \/ Tick

SpecLife == Init /\ [][NextLife]_vars

(* ------------------------------------ requests on one project that overlap *)
(* project 1 is stored with one technology and one user, as POST /projects
   with technology_ids = [1] and user_ids = [1] leaves it *)
StoredProject ==
  [id |-> 1, name |-> 1, description |-> 1, repository_url |-> 1, language |-> 1,
   rating |-> Some(4), created_at |-> 0, updated_at |-> 0]

ProjectDb ==
  [SeededDb EXCEPT
     !.projects = {StoredProject},
     !.project_technologies = <<[project_id |-> 1, technology_id |-> 1]>>,
     !.project_users = <<[project_id |-> 1, user_id |-> 1, role |-> "owner"]>>]

(* the requests that overlap *)
Racers == {1, 2}

(* identifier 2 is the one the next POST /projects draws *)
RaceIds == {1, 2}

RaceUpdateBodies ==
  [id : {1}, name : {None, Some(2)}, description : {None}, repository_url : {None},
   language : {None}, rating : {JsonAbsent},
   technology_ids : {None, Some(<<2>>)}, user_ids : {None, Some(<<2>>)}]

RaceCreateRequests ==
  [name : {1}, description : {1}, repository_url : {1}, language : {1},
   rating : {None}, technology_ids : {Some(<<1>>)}, user_ids : {None, Some(<<1>>)}]

(* the request r arrives and is given the slot s *)
Arrives(s, r) ==
  /\ reqs[s].op = "idle"
  /\ reqs' = [reqs EXCEPT ![s] = r]
  /\ UNCHANGED <<db, now, uuids, limiter, calls>>

(* PUT /projects/{id} arrives *)
PutArrives(s, json) ==
  Arrives(s, [Arrive("update_project", "validate", deserialize_update(json), FALSE)
                EXCEPT !.json = json])

(* DELETE /projects/{id} arrives *)
DeleteArrives(s, id) == Arrives(s, Arrive("delete_project", "delete", [id |-> id], FALSE))

(* POST /projects arrives *)
PostArrives(s, req) == Arrives(s, Arrive("create_project", "validate", req, FALSE))

(* GET /projects arrives *)
GetArrives(s, params) == Arrives(s, Arrive("list_projects", "count", params, FALSE))

InitOverlap ==
  /\ db = ProjectDb
  /\ reqs = [s \in Slots |-> Idle]
  /\ now = 0
  /\ uuids = {1}
  /\ limiter = RateLimiter_new(100, 20, 0)
  /\ calls = <<>>

NextOverlap ==
  \/ \E s \in Racers, json \in RaceUpdateBodies : PutArrives(s, json)
  \/ \E s \in Racers, id \in RaceIds : DeleteArrives(s, id)
  \/ \E s \in Racers, req \in RaceCreateRequests : PostArrives(s, req)
  \/ \E s \in Racers : Advance(s)
  \/ Tick

SpecOverlap == InitOverlap /\ [][NextOverlap]_vars

(* --------------------- reads and writes of one project that overlap *)
(* PUT /projects/1 bodies that set the name, the language or the technology
   list *)
MixUpdateBodies ==
  [id : {1}, name : {None, Some(2)}, description : {None}, repository_url : {None},
   language : {None, Some(2)}, rating : {JsonAbsent},
   technology_ids : {None, Some(<<1>>), Some(<<2>>)}, user_ids : {None}]

MixCreateRequests ==
  [name : {1}, description : {1}, repository_url : {1}, language : {1},
   rating : {None}, technology_ids : {None}, user_ids : {None}]

(* GET /projects without filters, first page *)
MixListParams ==
  [search : {None}, technology : {None}, user_id : {None}, min_rating : {None},
   max_rating : {None}, language : {None}, page : {None}, page_size : {None},
   sort : {None}, order : {None}]

NextMix ==
  \/ \E s \in Racers, json \in MixUpdateBodies : PutArrives(s, json)
  \/ \E s \in Racers : DeleteArrives(s, 1)
  \/ \E s \in Racers, req \in MixCreateRequests : PostArrives(s, req)
  \/ \E s \in Racers, params \in MixListParams : GetArrives(s, params)
  \/ \E s \in Racers : Advance(s)

SpecMix == InitOverlap /\ [][NextMix]_vars

(* ------------------------------------------------- lists of many projects *)
(* three projects as POST and PUT /projects leave them: 1 and 3 share their
   name, 2 has no rating, and each has one technology and one user *)
ListedProjects ==
  {[id |-> 1, name |-> 1, description |-> 2, repository_url |-> 1, language |-> 1,
    rating |-> Some(4), created_at |-> 0, updated_at |-> 2],
   [id |-> 2, name |-> 2, description |-> 1, repository_url |-> 1, language |-> 2,
    rating |-> None, created_at |-> 1, updated_at |-> 1],
   [id |-> 3, name |-> 1, description |-> 1, repository_url |-> 1, language |-> 1,
    rating |-> Some(5), created_at |-> 2, updated_at |-> 2]}

ListedTechnologies ==
  <<[project_id |-> 1, technology_id |-> 1], [project_id |-> 2, technology_id |-> 2],
    [project_id |-> 3, technology_id |-> 2]>>

ListedUsers ==
  <<[project_id |-> 1, user_id |-> 1, role |-> "owner"],
    [project_id |-> 2, user_id |-> 2, role |-> "owner"],
    [project_id |-> 3, user_id |-> 1, role |-> "owner"]>>

(* the stores that hold some of the three projects and their associations *)
ListDbs ==
  {[SeededDb EXCEPT
      !.projects = S,
      !.project_technologies =
         SelectSeq(ListedTechnologies, LAMBDA row : \E p \in S : p.id = row.project_id),
      !.project_users =
         SelectSeq(ListedUsers, LAMBDA row : \E p \in S : p.id = row.project_id)]
   : S \in SUBSET ListedProjects}

(* requests that filter and sort: the empty text 0, a sort column and an
   order outside the allow-lists, a text that is no identifier *)
FilterParams ==
  [search : {None, Some(0), Some(2)}, technology : {None, Some(1)},
   user_id : {None, Some(to_string(1)), Some(<<"not-a-uuid">>)},
   min_rating : {None, Some(4)}, max_rating : {None, Some(4)},
   language : {None, Some(1)},
   sort : {None, Some("name"), Some("created_at"), Some("updated_at"), Some("rating"),
           Some("id; DROP TABLE projects")},
   order : {None, Some("asc"), Some("desc"), Some("ASC, id")},
   page : {None, Some(Wide(2))}, page_size : {None, Some(Wide(1))}]

(* requests that page: the values around every limit of page and page_size,
   up to u32::MAX *)
PageParams ==
  [search : {None}, technology : {None}, user_id : {None},
   min_rating : {None}, max_rating : {None}, language : {None},
   sort : {None}, order : {None},
   page : OptionOf({Wide(0), Wide(1), Wide(2), Wide(3), [hi |-> 655, lo |-> 23593],
                    [hi |-> 655, lo |-> 23594], U32_MAX}),
   page_size : OptionOf({Wide(0), Wide(1), Wide(2), Wide(100), Wide(101),
                         [hi |-> 1, lo |-> 0], U32_MAX})]

TotalItems ==
  {Wide(0), Wide(1), Wide(100), Wide(101), U32_MAX, [hi |-> Base, lo |-> 0],
   [hi |-> Base, lo |-> 1], [hi |-> 100 * Base, lo |-> 0]}

PageSizes == {Wide(1), Wide(2), Wide(100)}

(* PaginationMetadata::new is applied to a total and a page size *)
NewMetadata(total_items, size) ==
  /\ reqs' = [reqs EXCEPT ![1] =
                [Arrive("PaginationMetadata_new", "done",
                        [page |-> Wide(1), page_size |-> size,
                         total_items |-> total_items], FALSE)
                   EXCEPT !.body = PaginationMetadata_new(Wide(1), size, total_items)]]
  /\ UNCHANGED <<db, now, uuids, limiter, calls>>

InitList ==
  /\ db \in ListDbs
  /\ reqs = [s \in Slots |-> Idle]
  /\ now = MaxTime
  /\ uuids = {p.id : p \in db.projects}
  /\ limiter = RateLimiter_new(100, 20, 0)
  /\ calls = <<>>

NextList ==
  \/ reqs[1].op = "idle" /\ \E params \in FilterParams : ListProjects(params)
  \/ reqs[1].op = "idle" /\ \E params \in PageParams : ListProjects(params)
  \/ reqs[1].op = "idle" /\ \E t \in TotalItems, size \in PageSizes : NewMetadata(t, size)
  \/ Respond

SpecList == InitList /\ [][NextList]_vars

(* ------------------------------ reads of projects with look-alike users *)
(* the two stored users have one name (users.name is not unique) *)
NamesakeDb ==
  [SeededDb EXCEPT !.users = {[id |-> 1, name |-> 1, email |-> 1],
                              [id |-> 2, name |-> 1, email |-> 2]}]

(* project 1 with both technologies and three user rows, one of which carries
   a role text that is no UserRole.  The handlers write only the texts of
   UserRole::as_str: such a row is written to the store by other means *)
MalformedRoleDb ==
  [SeededDb EXCEPT
     !.users = @ \cup {[id |-> 3, name |-> 1, email |-> 3]},
     !.projects = {StoredProject},
     !.project_technologies = <<[project_id |-> 1, technology_id |-> 1],
                                [project_id |-> 1, technology_id |-> 2]>>,
     !.project_users = <<[project_id |-> 1, user_id |-> 1, role |-> "owner"],
                         [project_id |-> 1, user_id |-> 2, role |-> "admin"],
                         [project_id |-> 1, user_id |-> 3, role |-> "viewer"]>>]

ReadDbs == {NamesakeDb, MalformedRoleDb}

ReadCreateRequests ==
  [name : {1}, description : {1}, repository_url : {1}, language : {1},
   rating : {None}, technology_ids : {None, Some(<<1, 2>>)},
   user_ids : IdLists({1, 2})]

ReadUpdateRequests ==
  [id : ProjectIds, name : {None, Some(2)}, description : {None},
   repository_url : {None}, language : {None}, rating : {None},
   technology_ids : {None, Some(<<2>>)}, user_ids : {None, Some(<<2, 1>>)}]

InitRead ==
  /\ db \in ReadDbs
  /\ reqs = [s \in Slots |-> Idle]
  /\ now = 0
  /\ uuids = {p.id : p \in db.projects}
  /\ limiter = RateLimiter_new(100, 20, 0)
  /\ calls = <<>>

NextRead ==
  \/ reqs[1].op = "idle" /\ \E req \in ReadCreateRequests : PostProject(req)
  \/ reqs[1].op = "idle" /\ \E req \in ReadUpdateRequests : PutProject(req)
  \/ reqs[1].op = "idle" /\ \E id \in ProjectIds : GetProject(id)
  \/ Respond

SpecRead == InitRead /\ [][NextRead]_vars

(* --------------------------------------------- calls of the rate limiter *)
MaxCalls == 4

IpAddrs == {1, 2}

BurstSizes == {0, 1, 2}

(* the time between one call and the next, in ticks: none, half a second, one
   second, and half a second less than, exactly and half a second more than
   sixty seconds *)
Delays ==
  {0, 1, Duration_from_secs(1), Duration_from_secs(60) - 1, Duration_from_secs(60),
   Duration_from_secs(60) + 1}

(* check_rate_limit(ip) is called delay ticks after the call before it; the
   mutex lets one call run at a time *)
CheckRateLimit(ip, delay) ==
  /\ Len(calls) < MaxCalls
  /\ LET t == now + delay
         result == check_rate_limit(limiter, ip, t)
     IN /\ now' = t
        /\ limiter' = result.self
        /\ calls' = Append(calls, [ip |-> ip, at |-> t, allowed |-> result.allowed,
                                   before |-> limiter.state])
  /\ UNCHANGED <<db, reqs, uuids>>

InitLimit ==
  /\ db = EmptyDb
  /\ reqs = [s \in Slots |-> Idle]
  /\ now = 0
  /\ uuids = {}
  /\ \E burst_size \in BurstSizes : limiter = RateLimiter_new(100, burst_size, 0)
  /\ calls = <<>>

NextLimit == \E ip \in IpAddrs, delay \in Delays : CheckRateLimit(ip, delay)

SpecLimit == InitLimit /\ [][NextLimit]_vars

(* ------------------------------------------------------------ C1 .. C3 *)
IsCreate(r) == r.op \in {"create_user", "create_technology"}

PassesValidation(r) ==
  CASE r.op = "create_user" -> ValidCreateUser(r.req)
    [] r.op = "create_technology" -> ValidCreateTechnology(r.req)
    [] r.op = "create_project" -> ValidCreateProject(r.req)
    [] r.op = "update_project" -> ValidUpdateProject(r.req)
    [] OTHER -> TRUE

Finished(r) == r.op # "idle" /\ r.status # 0

(* two create_user requests with one email, both arrived while the email was
   not stored and both past validation: each has a pre-check and an insert *)
RacingUsers(s, t) ==
  /\ s # t
  /\ reqs[s].op = "create_user" /\ reqs[t].op = "create_user"
  /\ reqs[s].req.email = reqs[t].req.email
  /\ ValidCreateUser(reqs[s].req) /\ ValidCreateUser(reqs[t].req)
  /\ ~reqs[s].stored /\ ~reqs[t].stored

(* C1: two concurrent create_user requests with the same email end with
   exactly one 201 and one 409, whatever the interleaving of their pre-check
   and insert: never two 201, and the loser gets no status other than 409 *)
C1_OneCreatedOneConflict ==
  \A s, t \in Slots :
    (RacingUsers(s, t) /\ Finished(reqs[s]) /\ Finished(reqs[t]))
      => {reqs[s].status, reqs[t].status} = {201, 409}

(* C2: in every reachable store state no two technology rows have the same
   name and no two user rows have the same email *)
C2_UniqueNameAndEmail ==
  /\ \A t1, t2 \in db.technologies : t1.name = t2.name => t1 = t2
  /\ \A u1, u2 \in db.users : u1.email = u2.email => u1 = u2

(* both racers passed the pre-check, both inserts were attempted, one row *)
C2_Witness ==
  \E s, t \in Slots :
    /\ RacingUsers(s, t) /\ Finished(reqs[s]) /\ Finished(reqs[t])
    /\ reqs[s].status = 201 /\ reqs[t].error.kind = "DatabaseError"
    /\ Cardinality({u \in db.users : u.email = reqs[s].req.email}) = 1

(* C3 as stated: every step of a create request whose name (email) was
   already stored when it arrived leaves the store unchanged, and the request
   ends with DuplicateResource (409) *)
C3_DuplicateIsConflict ==
  [][\A s \in Slots :
       (reqs'[s] # reqs[s] /\ IsCreate(reqs'[s]) /\ reqs'[s].stored)
         => /\ db' = db
            /\ Finished(reqs'[s]) =>
                 (reqs'[s].status = 409 /\ reqs'[s].error.kind = "DuplicateResource")]_vars

(* C3 amended: a create request whose name (email) was already stored when it
   arrived leaves the store unchanged; it ends with DuplicateResource (409)
   when it passes validation and with ValidationError (400) when it does not *)
C3_ValidDuplicateIsConflict ==
  [][\A s \in Slots :
       (reqs'[s] # reqs[s] /\ IsCreate(reqs'[s]) /\ reqs'[s].stored)
         => /\ db' = db
            /\ Finished(reqs'[s]) =>
                 IF PassesValidation(reqs'[s])
                   THEN reqs'[s].status = 409 /\ reqs'[s].error.kind = "DuplicateResource"
                   ELSE reqs'[s].status = 400 /\ reqs'[s].error.kind = "ValidationError"]_vars

C3_Witness ==
  \E s \in Slots :
    /\ reqs[s].op = "create_technology" /\ reqs[s].stored
    /\ reqs[s].status = 409
    /\ \E t \in db.technologies : t.name = reqs[s].req.name

(* ----------------------------------------------------------- C4 .. C10 *)
(* the request served last, until its response has been sent *)
last == reqs[1]

Served(op) == reqs[1].op = "idle" /\ reqs'[1].op = op

TechnologyIdsOf(d, id) ==
  LET rows == AssociationsOf(d.project_technologies, id)
  IN [k \in 1..Len(rows) |-> rows[k].technology_id]

UserIdsOf(d, id) ==
  LET rows == AssociationsOf(d.project_users, id)
  IN [k \in 1..Len(rows) |-> rows[k].user_id]

IsSorted(names) == \A i, j \in 1..Len(names) : i < j => names[i] <= names[j]

NoRepeat(ids) == \A i, j \in 1..Len(ids) : i < j => ids[i] # ids[j]

(* C4: list_projects with a user_id that is no well-formed identifier
   succeeds with no project at all (empty data, total_items = 0), whatever
   the store holds *)
C4_MalformedUserIdMatchesNothing ==
  (/\ last.op = "list_projects"
   /\ IsSome(last.req.user_id)
   /\ ~IsSome(parse_str(Unwrap(last.req.user_id))))
    => /\ last.status = 200
       /\ last.body.data = <<>>
       /\ last.body.pagination.total_items = Wide(0)

(* C5: a successful update_project leaves the project with exactly the
   supplied technology ids when technology_ids is present (the empty list
   included) and with exactly its prior technology associations when it is
   absent; likewise user_ids and the user associations *)
C5_ListReplacesAbsentKeeps ==
  [][(Served("update_project") /\ reqs'[1].status = 200) =>
       LET req == reqs'[1].req
       IN /\ IF IsSome(req.technology_ids)
               THEN Range(TechnologyIdsOf(db', req.id)) = Range(Unwrap(req.technology_ids))
               ELSE AssociationsOf(db'.project_technologies, req.id)
                      = AssociationsOf(db.project_technologies, req.id)
          /\ IF IsSome(req.user_ids)
               THEN Range(UserIdsOf(db', req.id)) = Range(Unwrap(req.user_ids))
               ELSE AssociationsOf(db'.project_users, req.id)
                      = AssociationsOf(db.project_users, req.id)]_vars

(* an update with technology_ids = [] and user_ids absent succeeded: no
   technology is left and the users are still there *)
C5_Witness ==
  /\ last.op = "update_project" /\ last.status = 200
  /\ last.req.technology_ids = Some(<<>>) /\ last.req.user_ids = None
  /\ TechnologyIdsOf(db, last.req.id) = <<>>
  /\ Len(UserIdsOf(db, last.req.id)) = 2

(* C6: after a successful create_project or update_project with a non-empty
   user_ids, the project's user associations are the listed users, the first
   as owner and every other as contributor: exactly one owner, no viewer, and
   nothing left of the roles held before *)
C6_FirstOwnerRestContributors ==
  (/\ last.op \in {"create_project", "update_project"}
   /\ last.status \in {200, 201}
   /\ IsSome(last.req.user_ids) /\ Unwrap(last.req.user_ids) # <<>>)
    => LET user_ids == Unwrap(last.req.user_ids)
           rows == AssociationsOf(db.project_users, last.body.project.id)
       IN /\ Len(rows) = Len(user_ids)
          /\ \A k \in 1..Len(rows) :
               /\ rows[k].user_id = user_ids[k]
               /\ rows[k].role = IF k = 1 THEN "owner" ELSE "contributor"
          /\ Cardinality({k \in 1..Len(rows) : rows[k].role = "owner"}) = 1
          /\ \A k \in 1..Len(rows) : rows[k].role # "viewer"

(* an update made user 2 the owner and user 1 a contributor *)
C6_Witness ==
  /\ last.op = "update_project" /\ last.status = 200
  /\ last.req.user_ids = Some(<<2, 1>>)
  /\ Len(AssociationsOf(db.project_users, last.req.id)) = 2

(* C7: get_project of an existing project returns every associated
   technology exactly once and every associated user, with its role, exactly
   once, technologies in ascending name order and users in ascending
   user-name order *)
C7_RelationsOnceAndSorted ==
  (last.op = "get_project" /\ last.status = 200) =>
    LET id == last.req.id
        technologies == last.body.technologies
        users == last.body.users
        pu == AssociationsOf(db.project_users, id)
    IN /\ {technologies[k].id : k \in 1..Len(technologies)} = Range(TechnologyIdsOf(db, id))
       /\ NoRepeat([k \in 1..Len(technologies) |-> technologies[k].id])
       /\ \A k \in 1..Len(technologies) : technologies[k] \in db.technologies
       /\ IsSorted([k \in 1..Len(technologies) |-> technologies[k].name])
       /\ {users[k].user.id : k \in 1..Len(users)} = Range(UserIdsOf(db, id))
       /\ NoRepeat([k \in 1..Len(users) |-> users[k].user.id])
       /\ \A k \in 1..Len(users) :
            /\ users[k].user \in db.users
            /\ \E j \in 1..Len(pu) :
                 pu[j].user_id = users[k].user.id /\ pu[j].role = as_str(users[k].role)
       /\ IsSorted([k \in 1..Len(users) |-> users[k].user.name])

(* two technologies and two users, four joined rows, inserted against the
   name order *)
C7_Witness ==
  /\ last.op = "get_project" /\ last.status = 200
  /\ TechnologyIdsOf(db, last.req.id) = <<1, 2>>
  /\ UserIdsOf(db, last.req.id) = <<1, 2>>
  /\ Len(last.body.technologies) = 2 /\ Len(last.body.users) = 2

(* C8: get_project ends with ProjectNotFound exactly when no project row has
   the identifier; for a project without associations it succeeds with two
   empty lists *)
C8_NotFoundIffNoRow ==
  (last.op = "get_project" /\ Finished(last)) =>
    LET id == last.req.id
    IN /\ last.error.kind = "ProjectNotFound" <=> ~IsSome(FetchProject(db, id))
       /\ last.status = 200 <=> IsSome(FetchProject(db, id))
       /\ last.status \in {200, 404}
       /\ (/\ IsSome(FetchProject(db, id))
           /\ TechnologyIdsOf(db, id) = <<>>
           /\ UserIdsOf(db, id) = <<>>)
            => /\ last.status = 200
               /\ last.body.technologies = <<>>
               /\ last.body.users = <<>>

C8_Witness ==
  /\ last.op = "get_project" /\ last.status = 200
  /\ IsSome(FetchProject(db, last.req.id))
  /\ TechnologyIdsOf(db, last.req.id) = <<>>
  /\ UserIdsOf(db, last.req.id) = <<>>
  /\ last.body.technologies = <<>> /\ last.body.users = <<>>

(* the probes of a request in the order of the claim: every technology id,
   then every user id, then (update_project) the project itself *)
ProbeOrder(r) ==
  LET tech_ids == ListOf(r.req.technology_ids)
      user_ids == ListOf(r.req.user_ids)
  IN [k \in 1..Len(tech_ids) |-> <<"technology", tech_ids[k]>>]
     \o [k \in 1..Len(user_ids) |-> <<"user", user_ids[k]>>]
     \o (IF r.op = "update_project" THEN << <<"project", r.req.id>> >> ELSE <<>>)

Missing(d, probe) ==
  CASE probe[1] = "technology" -> ~TechnologyExists(d, probe[2])
    [] probe[1] = "user" -> ~UserExists(d, probe[2])
    [] probe[1] = "project" -> ~IsSome(FetchProject(d, probe[2]))

NotFound(probe) ==
  CASE probe[1] = "technology" -> AppError("TechnologyNotFound", probe[2])
    [] probe[1] = "user" -> AppError("UserNotFound", probe[2])
    [] probe[1] = "project" -> AppError("ProjectNotFound", probe[2])

(* the probes made are the first ones of the claim's order, and when some
   identifier is missing the request stopped at the first such with the
   not-found error that names it *)
AbortsAtFirstMissing(r) ==
  LET order == ProbeOrder(r)
      M == {k \in 1..Len(order) : Missing(db, order[k])}
  IN /\ Len(r.probes) <= Len(order)
     /\ r.probes = SubSeq(order, 1, Len(r.probes))
     /\ M # {} => /\ r.probes = SubSeq(order, 1, Min(M))
                  /\ r.error = NotFound(order[Min(M)])
                  /\ r.status = 404

(* C9 as stated: create_project and update_project probe the technology ids
   in list order, then the user ids in list order, and abort at the first
   identifier that does not exist with the not-found error naming it (so
   TechnologyNotFound when a technology and a user are both unknown); in
   update_project the project is looked up after these probes *)
C9_ProbesInOrder ==
  (last.op \in {"create_project", "update_project"} /\ Finished(last))
    => AbortsAtFirstMissing(last)

(* C9 amended: the same for a request that passes validation, which probes
   every listed id when none is missing; a request that fails validation ends
   with ValidationError and probes nothing, whatever ids it names *)
C9_ValidProbesInOrder ==
  (last.op \in {"create_project", "update_project"} /\ Finished(last))
    => IF PassesValidation(last)
         THEN /\ AbortsAtFirstMissing(last)
              /\ (\A k \in 1..Len(ProbeOrder(last)) : ~Missing(db, ProbeOrder(last)[k]))
                   => last.probes = ProbeOrder(last)
         ELSE /\ last.probes = <<>>
              /\ last.error.kind = "ValidationError" /\ last.status = 400

(* a known technology was probed, then an unknown one ended the request,
   although the user list names an unknown user too and the project is not
   stored either *)
C9_Witness ==
  /\ last.op = "update_project" /\ last.status = 404
  /\ last.req.technology_ids = Some(<<1, 3>>) /\ last.req.user_ids = Some(<<3>>)
  /\ last.probes = << <<"technology", 1>>, <<"technology", 3>> >>
  /\ last.error = AppError("TechnologyNotFound", 3)
  /\ ~IsSome(FetchProject(db, last.req.id))

(* C10: a create_project or update_project that ends with a validation error
   (400) or a not-found error (404) leaves projects, project_technologies and
   project_users as they were *)
C10_ErrorsLeaveTablesUnchanged ==
  [][((Served("create_project") \/ Served("update_project"))
      /\ reqs'[1].status \in {400, 404})
       => /\ db'.projects = db.projects
          /\ db'.project_technologies = db.project_technologies
          /\ db'.project_users = db.project_users]_vars

(* an update that names a new name and new lists ended with UserNotFound: the
   stored project still has its name and its associations *)
C10_Witness ==
  /\ last.op = "update_project" /\ last.error.kind = "UserNotFound"
  /\ last.req.name = Some(2) /\ IsSome(last.req.technology_ids)
  /\ \E p \in db.projects : p.id = last.req.id /\ p.name = 1
  /\ Len(TechnologyIdsOf(db, last.req.id)) = 2
  /\ Len(UserIdsOf(db, last.req.id)) = 2

(* ---------------------------------------------------------- C11 .. C15 *)
ScalarFields == {"name", "description", "repository_url", "language"}

(* the row of project id in the store d *)
Row(d, id) == Unwrap(FetchProject(d, id))

(* C11: a successful update_project gives every field among name,
   description, repository_url and language the payload's value when the
   payload carries one and leaves it as stored otherwise; id and created_at
   stay, and updated_at becomes the current time whatever the payload holds *)
C11_OnlySuppliedFieldsChange ==
  [][(Served("update_project") /\ reqs'[1].status = 200) =>
       LET req == reqs'[1].req
           before == Row(db, req.id)
           after == Row(db', req.id)
       IN /\ \A f \in ScalarFields :
               after[f] = IF IsSome(req[f]) THEN Unwrap(req[f]) ELSE before[f]
          /\ after.id = before.id
          /\ after.created_at = before.created_at
          /\ after.updated_at = now
          /\ reqs'[1].body.project = after
          /\ {p \in db'.projects : p.id # req.id} = {p \in db.projects : p.id # req.id}]_vars

(* an update that carries a description and no name, two ticks after the
   project was created *)
C11_Witness ==
  /\ last.op = "update_project" /\ last.status = 200
  /\ last.req.name = None /\ last.req.description = Some(2)
  /\ Row(db, last.req.id).name = 1
  /\ Row(db, last.req.id).description = 2
  /\ Row(db, last.req.id).created_at = 0
  /\ Row(db, last.req.id).updated_at = 2

(* C12: a successful update_project whose body carries the rating key stores
   what the key holds, null included (the stored rating becomes null); a body
   without the key leaves the stored rating as it was *)
C12_PresentRatingOverwrites ==
  [][(Served("update_project") /\ reqs'[1].status = 200) =>
       LET json == reqs'[1].json
           before == Row(db, json.id)
           after == Row(db', json.id)
       IN after.rating = IF json.rating = JsonAbsent THEN before.rating
                         ELSE json.rating[1]]_vars

(* the identifier was drawn for a project and the project's row is gone *)
Deleted(id) == id \in uuids /\ ~IsSome(FetchProject(db, id))

(* every technology and user the payload names is stored *)
ReferencesExist(d, req) ==
  /\ \A k \in 1..Len(ListOf(req.technology_ids)) :
       TechnologyExists(d, ListOf(req.technology_ids)[k])
  /\ \A k \in 1..Len(ListOf(req.user_ids)) : UserExists(d, ListOf(req.user_ids)[k])

IsProjectNotFound(r) ==
  r.status = 404 /\ r.error = AppError("ProjectNotFound", r.req.id)

(* delete_project removes the row of an id that has one and answers 204, and
   answers ProjectNotFound and changes nothing for an id that has none *)
DeleteRemovesOrNotFound ==
  Served("delete_project") =>
    LET id == reqs'[1].req.id
    IN IF IsSome(FetchProject(db, id))
         THEN /\ reqs'[1].status = 204
              /\ db'.projects = {p \in db.projects : p.id # id}
              /\ db'.technologies = db.technologies /\ db'.users = db.users
         ELSE IsProjectNotFound(reqs'[1]) /\ db' = db

(* C14 as stated: delete_project removes the row and answers 204 when the id
   has a row, answers ProjectNotFound and changes nothing when it has none;
   after a delete every get_project, update_project and delete_project on
   that id answers ProjectNotFound *)
C14_DeletedStaysNotFound ==
  [][/\ DeleteRemovesOrNotFound
     /\ \A op \in {"get_project", "update_project", "delete_project"} :
          (Served(op) /\ Deleted(reqs'[1].req.id)) => IsProjectNotFound(reqs'[1])]_vars

(* C14 amended: the same, where the update_project is one that passes
   validation and names only stored technologies and users; an update on a
   deleted id that fails validation answers 400, and one that names an
   unknown technology or user answers that id's not-found error *)
C14_DeletedIsNotFoundAfterProbes ==
  [][/\ DeleteRemovesOrNotFound
     /\ \A op \in {"get_project", "delete_project"} :
          (Served(op) /\ Deleted(reqs'[1].req.id)) => IsProjectNotFound(reqs'[1])
     /\ (Served("update_project") /\ Deleted(reqs'[1].req.id)) =>
          /\ reqs'[1].status \in {400, 404}
          /\ db' = db
          /\ (PassesValidation(reqs'[1]) /\ ReferencesExist(db, reqs'[1].req))
               => IsProjectNotFound(reqs'[1])]_vars

(* an update with a sound payload on the id of a project that was created
   and deleted *)
C14_Witness ==
  /\ last.op = "update_project" /\ IsProjectNotFound(last)
  /\ Deleted(last.req.id)
  /\ last.req.name = Some(2) /\ last.req.technology_ids = Some(<<>>)

(* C13: whenever the updated_at of a stored project is written, the new value
   is not before the one it replaces, in every interleaving of the requests on
   that project *)
C13_UpdatedAtNeverDecreases ==
  [][\A p \in db.projects : \A q \in db'.projects :
       p.id = q.id => q.updated_at >= p.updated_at]_vars

(* C15: every row of project_technologies and of project_users names a
   project that has a row, in every interleaving of delete_project with
   create_project and update_project *)
C15_NoOrphanAssociation ==
  /\ \A k \in 1..Len(db.project_technologies) :
       IsSome(FetchProject(db, db.project_technologies[k].project_id))
  /\ \A k \in 1..Len(db.project_users) :
       IsSome(FetchProject(db, db.project_users[k].project_id))

(* delete_project removed project 1 while an update_project that replaces
   its technologies was between its project lookup and its INSERT *)
C15_Witness ==
  \E s, t \in Racers :
    /\ reqs[s].op = "delete_project" /\ reqs[s].status = 204 /\ reqs[s].req.id = 1
    /\ reqs[t].op = "update_project" /\ IsSome(reqs[t].req.technology_ids)
    /\ Len(reqs[t].probes) = 2 /\ reqs[t].status = 500
    /\ db.projects = {} /\ db.project_technologies = <<>> /\ db.project_users = <<>>

(* ---------------------------------------------------------- C16 .. C20 *)
IsList(r) == r.op = "list_projects" /\ r.pc = "done"

(* the effective page size and page of the claim *)
EffectivePageSize(params) ==
  IF params.page_size = None THEN Wide(10)
  ELSE IF Unwrap(params.page_size) = Wide(0) THEN Wide(1)
  ELSE IF Less(Wide(100), Unwrap(params.page_size)) THEN Wide(100)
  ELSE Unwrap(params.page_size)

EffectivePage(params) ==
  IF params.page = None \/ params.page = Some(Wide(0)) THEN Wide(1)
  ELSE Unwrap(params.page)

(* C16: the effective page size is 10 for an absent page_size, 1 for 0, 100
   for a value over 100 and the value otherwise; the effective page is 1 for
   an absent page or 0 and the value otherwise; the response and the LIMIT of
   the statement carry these values *)
C16_EffectivePageAndSize ==
  IsList(last) =>
    /\ page_size(last.req) = EffectivePageSize(last.req)
    /\ page(last.req) = EffectivePage(last.req)
    /\ ~Less(page_size(last.req), Wide(1)) /\ ~Less(Wide(100), page_size(last.req))
    /\ ~Less(page(last.req), Wide(1))
    /\ last.status = 200 =>
         /\ last.body.pagination.page = EffectivePage(last.req)
         /\ last.body.pagination.page_size = EffectivePageSize(last.req)
         /\ last.query.limit = EffectivePageSize(last.req)

(* page_size = u32::MAX and page = 0 were answered with page size 100, page 1 *)
C16_Witness ==
  /\ IsList(last) /\ last.status = 200
  /\ last.req.page_size = Some(U32_MAX) /\ last.req.page = Some(Wide(0))
  /\ last.body.pagination.page_size = Wide(100)
  /\ last.body.pagination.page = Wide(1)

(* C17: PaginationMetadata::new reports total_pages = max(1, ceil(total_items
   / page_size)) for every total_items >= 0 and every page size in 1..100 *)
C17_TotalPagesIsCeil ==
  last.op = "PaginationMetadata_new" =>
    LET pages == CeilDiv(last.req.total_items, last.req.page_size.lo)
    IN /\ last.body.total_pages = IF Less(pages, Wide(1)) THEN Wide(1) ELSE pages
       /\ last.body.total_pages # Wide(0)

(* C18: the OFFSET of list_projects is (effective page - 1) * effective page
   size for every page a client can send: the multiplication neither wraps
   around nor aborts the request *)
C18_OffsetIsExact ==
  IsList(last) =>
    /\ last.error.kind # "Panic"
    /\ last.status = 200
    /\ last.query.offset =
         Times(Pred(EffectivePage(last.req)), EffectivePageSize(last.req).lo)

SortColumns == {"name", "created_at", "updated_at", "rating"}

(* C19: the ORDER BY of list_projects names the column the client asked for
   when it is one of name, created_at, updated_at, rating and created_at
   otherwise, with ASC for order = asc and DESC for every other or absent
   order; no other text of the client reaches the statement and no sort or
   order value makes the request fail (a request ends without response only
   when its page arithmetic panics) *)
C19_OrderByFromAllowList ==
  IsList(last) =>
    LET column == IF \E f \in SortColumns : last.req.sort = Some(f)
                    THEN Unwrap(last.req.sort) ELSE "created_at"
        direction == IF last.req.order = Some("asc") THEN "ASC" ELSE "DESC"
    IN /\ last.error.kind \in {"None", "Panic"}
       /\ last.error.kind = "None" =>
            /\ last.status = 200
            /\ last.query.order_by = <<column, direction>>
            /\ last.query.order_by[1] \in SortColumns
            /\ last.query.order_by[2] \in {"ASC", "DESC"}

(* a sort and an order that carry statement text were answered with the
   default order *)
C19_Witness ==
  /\ IsList(last) /\ last.status = 200
  /\ last.req.sort = Some("id; DROP TABLE projects")
  /\ last.req.order = Some("ASC, id")
  /\ last.query.order_by = <<"created_at", "DESC">>
  /\ Len(last.body.data) = 3

(* the project p satisfies every filter the request supplies; a user_id
   filter is satisfied by an association of p with the user of that
   identifier, so a text that is no identifier is satisfied by no project *)
Satisfies(d, params, p) ==
  /\ IsSome(params.search) =>
       (Like(p.name, Unwrap(params.search)) \/ Like(p.description, Unwrap(params.search)))
  /\ IsSome(params.technology) =>
       \E j \in 1..Len(d.project_technologies) : \E t \in d.technologies :
         /\ d.project_technologies[j].project_id = p.id
         /\ d.project_technologies[j].technology_id = t.id
         /\ Like(t.name, Unwrap(params.technology))
  /\ IsSome(params.user_id) =>
       \E j \in 1..Len(d.project_users) :
         /\ d.project_users[j].project_id = p.id
         /\ to_string(d.project_users[j].user_id) = Unwrap(params.user_id)
  /\ IsSome(params.min_rating) =>
       (IsSome(p.rating) /\ Unwrap(p.rating) >= Unwrap(params.min_rating))
  /\ IsSome(params.max_rating) =>
       (IsSome(p.rating) /\ Unwrap(p.rating) <= Unwrap(params.max_rating))
  /\ IsSome(params.language) => Like(p.language, Unwrap(params.language))

(* C20: list_projects answers with total_items = the number of projects that
   satisfy every supplied filter and with data = the projects at the
   positions [offset, offset + page_size) of those projects in the effective
   order, which are min(page_size, max(0, total_items - offset)) projects *)
C20_CountAndPage ==
  IsList(last) =>
    LET params == last.req
        S == {p \in db.projects : Satisfies(db, params, p)}
        key == [p \in S |-> OrderKey(p, sort_field(params), sort_order(params))]
        size == EffectivePageSize(params)
        off == Times(Pred(EffectivePage(params)), size.lo)
        left == IF off.hi > 0 \/ off.lo > Cardinality(S) THEN 0 ELSE Cardinality(S) - off.lo
    IN /\ last.status = 200
       /\ last.body.pagination.total_items = Wide(Cardinality(S))
       /\ \E rows \in OrderBy(S, key) : last.body.data = LimitOffset(rows, size, off)
       /\ Len(last.body.data) = IF size.lo < left THEN size.lo ELSE left

(* ---------------------------------------------------------- C21 .. C30 *)
(* the projects that pass the filters of params in the store d *)
Filtered(d, params) == {p \in d.projects : ListFilter(d, params, p)}

(* C21: the total_items of every list_projects response is the size of the
   filtered set that its SELECT drew the page from, also when other requests
   write between the COUNT and the SELECT *)
C21_TotalIsSizeOfPagedSet ==
  [][\A s \in Racers :
       (/\ reqs[s].op = "list_projects" /\ reqs[s].pc = "select"
        /\ reqs'[s].pc = "done" /\ reqs'[s].status = 200)
       => reqs'[s].body.pagination.total_items =
            Wide(Cardinality(Filtered(db, reqs[s].req)))]_vars

(* C22: every ProjectWithRelations that create_project, update_project or
   get_project returns lists its technologies in ascending technology-name
   order and its users in ascending user-name order *)
C22_ReturnedRelationsSorted ==
  (/\ last.op \in {"create_project", "update_project", "get_project"}
   /\ last.status \in {200, 201}) =>
    /\ IsSorted([k \in 1..Len(last.body.technologies) |-> last.body.technologies[k].name])
    /\ IsSorted([k \in 1..Len(last.body.users) |-> last.body.users[k].user.name])

(* the calls of ip that were admitted at an instant in (from, to] *)
AdmittedIn(ip, from, to) ==
  {k \in 1..Len(calls) :
     calls[k].ip = ip /\ calls[k].allowed /\ calls[k].at > from /\ calls[k].at <= to}

(* the ends of the one-second windows that hold a call *)
WindowEnds == UNION {{calls[k].at, calls[k].at + 1} : k \in 1..Len(calls)}

(* C23: for every ip, every window of the last second (t - 1 s, t] holds at
   most burst_size admitted calls of that ip, and a call is admitted only if
   fewer than burst_size calls of its ip were admitted within the second
   before it *)
C23_AtMostBurstPerSecond ==
  /\ \A ip \in IpAddrs, t \in WindowEnds :
       Cardinality(AdmittedIn(ip, t - Duration_from_secs(1), t)) <= limiter.burst_size
  /\ \A k \in 1..Len(calls) :
       calls[k].allowed =>
         Cardinality({j \in AdmittedIn(calls[k].ip, calls[k].at - Duration_from_secs(1),
                                       calls[k].at) : j < k}) < limiter.burst_size

(* with burst_size 2, two calls of one ip are admitted, the third within the
   second is refused and a call after the window is admitted again *)
C23_Witness ==
  /\ limiter.burst_size = 2 /\ Len(calls) = 4
  /\ \A k \in 1..4 : calls[k].ip = 1
  /\ [k \in 1..4 |-> calls[k].allowed] = <<TRUE, TRUE, FALSE, TRUE>>
  /\ calls[3].at - calls[1].at < Duration_from_secs(1)
  /\ calls[4].at - calls[2].at = Duration_from_secs(1)

(* the association rows that create_project inserts for the first n
   technology ids and the first m user ids of its request *)
TechnologyRows(id, tech_ids, n) ==
  [k \in 1..n |-> [project_id |-> id, technology_id |-> tech_ids[k]]]

UserRows(id, user_ids, m) ==
  [k \in 1..m |-> [project_id |-> id, user_id |-> user_ids[k], role |-> as_str(RoleAt(k))]]

(* C24: a create_project whose store operation fails after the project row
   was inserted answers with that one error and no body, and leaves the
   project row and exactly the association rows inserted before the failing
   statement: nothing is undone and nothing more is written *)
C24_FailureLeavesPartialState ==
  [][(Served("create_project") /\ reqs'[1].error.kind = "DatabaseError") =>
       LET r == reqs'[1]
           id == r.project.id
           tech_ids == ListOf(r.req.technology_ids)
           user_ids == ListOf(r.req.user_ids)
       IN /\ r.status = 500 /\ r.body = <<>>
          /\ r.project \notin db.projects
          /\ db'.projects = db.projects \cup {r.project}
          /\ db'.technologies = db.technologies /\ db'.users = db.users
          /\ \E n \in 0..Len(tech_ids), m \in 0..Len(user_ids) :
               /\ db'.project_technologies =
                    db.project_technologies \o TechnologyRows(id, tech_ids, n)
               /\ db'.project_users = db.project_users \o UserRows(id, user_ids, m)
               /\ \/ n < Len(tech_ids) /\ m = 0
                  \/ n = Len(tech_ids) /\ m < Len(user_ids)]_vars

(* the second INSERT of technology_ids = [1, 1] was rejected: the project row
   and the first association row are stored, no user row is *)
C24_Witness ==
  /\ last.op = "create_project" /\ last.error.kind = "DatabaseError"
  /\ last.req.technology_ids = Some(<<1, 1>>) /\ last.req.user_ids = Some(<<2>>)
  /\ last.project \in db.projects
  /\ db.project_technologies = <<[project_id |-> last.project.id, technology_id |-> 1]>>
  /\ db.project_users = <<>>

RECURSIVE UsersInRowOrder(_, _)
(* the users of the joined rows whose role is a UserRole, each at its first
   occurrence; seen holds the identifiers already met *)
UsersInRowOrder(rows, seen) ==
  IF rows = <<>> THEN <<>>
  ELSE LET row == Head(rows)
           has == /\ IsSome(row.user) /\ IsSome(from_str(Unwrap(row.role)))
                  /\ Unwrap(row.user).id \notin seen
       IN IF has
            THEN <<[user |-> Unwrap(row.user), role |-> Unwrap(from_str(Unwrap(row.role)))]>>
                 \o UsersInRowOrder(Tail(rows), seen \cup {Unwrap(row.user).id})
            ELSE UsersInRowOrder(Tail(rows), seen)

RECURSIVE TechnologiesInRowOrder(_, _)
TechnologiesInRowOrder(rows, seen) ==
  IF rows = <<>> THEN <<>>
  ELSE LET row == Head(rows)
       IN IF IsSome(row.tech) /\ Unwrap(row.tech).id \notin seen
            THEN <<Unwrap(row.tech)>>
                 \o TechnologiesInRowOrder(Tail(rows), seen \cup {Unwrap(row.tech).id})
            ELSE TechnologiesInRowOrder(Tail(rows), seen)

(* C25: get_project lists technologies (users) of one name in the order of
   their first occurrence in the joined rows, that is, its lists are the
   first occurrences sorted by name with a stable sort; and every call whose
   query returns the same rows gives the same response *)
C25_TiesInFirstOccurrenceOrder ==
  (last.op = "get_project" /\ last.status = 200) =>
    LET users == UsersInRowOrder(last.rows, {})
        technologies == TechnologiesInRowOrder(last.rows, {})
    IN /\ last.body.users = sort_by(users, [u \in Range(users) |-> u.user.name])
       /\ last.body.technologies =
            sort_by(technologies, [t \in Range(technologies) |-> t.name])
       /\ \A again \in Run(Config(Arrive("get_project", "query", last.req, FALSE))) :
            again.r.rows = last.rows => again.r.body = last.body

UserRoles == {"owner", "contributor", "viewer"}

(* C26: get_project and a successful update_project leave out of the users
   list every user whose association row carries a role text other than
   owner, contributor or viewer, and still list every other associated user
   with its role and every associated technology; get_project of a stored
   project succeeds whatever the role texts are *)
C26_MalformedRoleIsOmitted ==
  (last.op \in {"get_project", "update_project"} /\ Finished(last)) =>
    LET id == last.req.id
        pu == AssociationsOf(db.project_users, id)
        wellFormed == {j \in 1..Len(pu) : pu[j].role \in UserRoles}
    IN /\ (last.op = "get_project" /\ IsSome(FetchProject(db, id))) => last.status = 200
       /\ last.status = 200 =>
            LET users == last.body.users
                technologies == last.body.technologies
            IN /\ {users[k].user.id : k \in 1..Len(users)} = {pu[j].user_id : j \in wellFormed}
               /\ \A k \in 1..Len(users) :
                    /\ users[k].user \in db.users
                    /\ \E j \in wellFormed :
                         pu[j].user_id = users[k].user.id /\ pu[j].role = as_str(users[k].role)
               /\ {technologies[k].id : k \in 1..Len(technologies)}
                    = Range(TechnologyIdsOf(db, id))
               /\ \A k \in 1..Len(technologies) : technologies[k] \in db.technologies

(* an update that left the user rows alone answered with the two users whose
   role parses and both technologies, while the row with role admin is stored *)
C26_Witness ==
  /\ last.op = "update_project" /\ last.status = 200
  /\ last.req.user_ids = None /\ last.req.technology_ids = None
  /\ \E j \in 1..Len(db.project_users) :
       db.project_users[j].project_id = last.req.id /\ db.project_users[j].role = "admin"
  /\ Len(AssociationsOf(db.project_users, last.req.id)) = 3
  /\ Len(last.body.users) = 2 /\ Len(last.body.technologies) = 2

(* the scalar fields that the update request r supplies *)
SuppliedFields(r) == {f \in ScalarFields : IsSome(r.req[f])}

(* C27: when two update_project requests on one project that supply disjoint
   scalar fields have both succeeded, the stored row carries every field that
   either of them supplied, however their statements interleave *)
C27_DisjointUpdatesBothKept ==
  \A s, t \in Racers :
    (/\ s # t
     /\ reqs[s].op = "update_project" /\ reqs[s].status = 200
     /\ reqs[t].op = "update_project" /\ reqs[t].status = 200
     /\ reqs[s].req.id = reqs[t].req.id
     /\ SuppliedFields(reqs[s]) # {} /\ SuppliedFields(reqs[t]) # {}
     /\ SuppliedFields(reqs[s]) \cap SuppliedFields(reqs[t]) = {}
     /\ IsSome(FetchProject(db, reqs[s].req.id)))
    => \A f \in SuppliedFields(reqs[s]) :
         Row(db, reqs[s].req.id)[f] = Unwrap(reqs[s].req[f])

(* C28: when two update_project requests on one project that both supply
   technology_ids have both succeeded, the project's technology associations
   are the list of one of the two requests, never a union or mixture.  The
   case checked is the one of two lists without a common id, where no INSERT
   repeats a stored pair *)
C28_AssociationsOfOneRequest ==
  \A s, t \in Racers :
    (/\ s # t
     /\ reqs[s].op = "update_project" /\ reqs[s].status = 200
     /\ reqs[t].op = "update_project" /\ reqs[t].status = 200
     /\ reqs[s].req.id = reqs[t].req.id
     /\ IsSome(reqs[s].req.technology_ids) /\ IsSome(reqs[t].req.technology_ids)
     /\ Range(Unwrap(reqs[s].req.technology_ids))
          \cap Range(Unwrap(reqs[t].req.technology_ids)) = {}
     /\ IsSome(FetchProject(db, reqs[s].req.id)))
    => TechnologyIdsOf(db, reqs[s].req.id)
         \in {Unwrap(reqs[s].req.technology_ids), Unwrap(reqs[t].req.technology_ids)}

(* C29: at the moment update_project answers 200, the store holds a project
   row with the request's id and with the field values of the response, also
   when a delete_project on that id ran between the update's fetch and its
   writes *)
C29_SuccessMeansStored ==
  [][\A s \in Racers :
       (/\ reqs[s].op = "update_project" /\ reqs[s].pc # "done"
        /\ reqs'[s].pc = "done" /\ reqs'[s].status = 200)
       => FetchProject(db', reqs'[s].req.id) = Some(reqs'[s].body.project)]_vars

(* the limiter state that the k-th call left *)
StateAfter(k) == IF k = Len(calls) THEN limiter.state ELSE calls[k + 1].before

(* by the time of the k-th call a request of ip was admitted, and the last
   one admitted is age ticks old or older *)
LastAdmittedIsOld(ip, k, age) ==
  /\ \E j \in 1..k : calls[j].ip = ip /\ calls[j].allowed
  /\ \A j \in 1..k :
       (calls[j].ip = ip /\ calls[j].allowed) => calls[k].at - calls[j].at >= age

(* C30: a check_rate_limit call that arrives more than 60 seconds after the
   last cleanup leaves no tracker in the map whose last admitted request is
   60 seconds old or older, and makes its own instant the last cleanup; a
   call that arrives 60 seconds or less after the last cleanup removes no
   tracker and leaves the last cleanup as it was *)
C30_StaleTrackersSwept ==
  \A k \in 1..Len(calls) :
    LET before == calls[k].before
        after == StateAfter(k)
    IN IF calls[k].at - before.last_cleanup > Duration_from_secs(60)
         THEN /\ \A ip \in DOMAIN after.requests :
                   ~LastAdmittedIsOld(ip, k, Duration_from_secs(60))
              /\ after.last_cleanup = calls[k].at
         ELSE /\ DOMAIN before.requests \subseteq DOMAIN after.requests
              /\ after.last_cleanup = before.last_cleanup

(* ip 1 was admitted at the start; the call of ip 2 exactly 60 s later left
   the tracker of ip 1 in the map, and the call half a second after that
   removed it and kept the tracker of ip 2 *)
C30_Witness ==
  /\ Len(calls) = 3 /\ limiter.burst_size = 2
  /\ calls[1].ip = 1 /\ calls[1].allowed
  /\ calls[2].ip = 2 /\ calls[2].at - calls[2].before.last_cleanup = Duration_from_secs(60)
  /\ DOMAIN calls[3].before.requests = {1, 2}
  /\ calls[3].ip = 2 /\ calls[3].at - calls[3].before.last_cleanup > Duration_from_secs(60)
  /\ DOMAIN limiter.state.requests = {2}
  /\ Len(limiter.state.requests[2].requests) = 2

====
